---- MODULE Spec2Model ----
(***************************************************************************)
(* Model of restack_gen's pipeline operator-expression compiler            *)
(* (src/restack_gen/generators/pipeline.py): tokenizer, recursive-descent  *)
(* parser, step collector and validator, code compiler, and the execution  *)
(* of the compiled fragment under cooperative (asyncio) scheduling; around  *)
(* it PipelineGenerator.generate's file output and the command             *)
(* `restack g pipeline` (src/restack_gen/cli/commands/generate.py), called *)
(* with a valid component name.                                            *)
(*                                                                         *)
(* A Python str is a sequence of one-character strings; the two Unicode    *)
(* operator glyphs are the characters "U2192" (rightwards arrow) and       *)
(* "U21C4" (right arrow over left arrow).                                  *)
(***************************************************************************)
EXTENDS Integers, Sequences, FiniteSets, TLC

VARIABLES
    operators,      \* generate(operators=...): the raw expression
    pc,             \* position inside PipelineGenerator.generate
    tokens,         \* self._tokens
    pos,            \* self._pos
    ast_root,       \* ast_root
    steps,          \* steps (the sorted list handed to the template)
    exec_snippets,  \* exec_snippets: the compiled fragment, a sequence of lines
    error,          \* the exception raised, if any
    force,          \* --force
    with_tests,     \* not --no-tests
    dry_run,        \* --dry-run
    files,          \* the pipeline file and its test file on disk
    exit_code,      \* exit status of the command, <<>> while it runs
    stderr,         \* what the command wrote to standard error
    stop_event,     \* server: stop_event.is_set()
    threads,        \* server: the server threads started, each with its position in _serve
    thread,         \* server: the thread run_once returned last
    bound,          \* the server threads whose socket is bound to the port
    reloader,       \* server: position of the main thread in the reload loop
    reuse_port,     \* whether the platform lets a second socket bind the port
    requests,       \* concurrent generation requests, each at its statement
    generators,     \* the PipelineGenerator objects: self._tokens, self._pos
    rt,             \* status of one execution of the generated run() body
    tasks,          \* asyncio tasks of that execution
    frames,         \* Python frames (scopes) created by that execution
    order,          \* ctx['order']
    steps_completed \* the local steps_completed of the generated run()

vars == <<operators, pc, tokens, pos, ast_root, steps, exec_snippets, error,
          force, with_tests, dry_run, files, exit_code, stderr,
          requests, generators,
          stop_event, threads, thread, bound, reloader, reuse_port,
          rt, tasks, frames, order, steps_completed>>

srvVars == <<stop_event, threads, thread, bound, reloader, reuse_port>>
genVars == <<operators, pc, tokens, pos, ast_root, steps, exec_snippets, error>>
runVars == <<rt, tasks, frames, order, steps_completed>>
optVars == <<force, with_tests, dry_run>>
outVars == <<files, exit_code, stderr>>
reqVars == <<requests, generators>>

----------------------------------------------------------------------------
(* Bounds of the model *)

\* longest expression of the exhaustive lexeme enumeration, in lexemes
MaxLexemes == 3
\* longest expression of the exhaustive character enumeration, in characters
MaxChars == 3
\* most step leaves of an enumerated well-formed expression
MaxLeaves == 3
\* longest expression tried with every combination of options and existing
\* files, in characters; longer ones run with the defaults in an empty project
MaxOptionChars == 1
\* longest expression of the enumerated concurrent requests, in lexemes
MaxRequestLexemes == 2
\* deepest stack of parse methods before Python raises RecursionError
RecursionLimit == 24

----------------------------------------------------------------------------
(* Characters *)

Upper == {"A", "B", "C", "D", "E", "F"}
Lower == {"a", "b", "c", "d", "e", "f"}
Digit == {"0", "1"}
Space == {" "}

ToLowerPairs == {<<"A", "a">>, <<"B", "b">>, <<"C", "c">>, <<"D", "d">>, <<"E", "e">>, <<"F", "f">>}

\* str.lower() on one character
LowerChar(c) ==
    IF c \in Upper THEN (CHOOSE p \in ToLowerPairs : p[1] = c)[2] ELSE c

\* code point order of the identifier characters (digits < upper < "_" < lower)
CodeOrder == <<"0", "1", "A", "B", "C", "D", "E", "F", "_",
               "a", "b", "c", "d", "e", "f">>

Ord(c) == CHOOSE i \in 1..Len(CodeOrder) : CodeOrder[i] = c

\* [A-Za-z_]
IsIdentStart_or_digit(c) == c \in Upper \cup Lower \cup Digit \cup {"_"}
IsIdentStart(c) == c \in Upper \cup Lower \cup {"_"}
\* [A-Za-z0-9_]
IsIdentChar(c) == c \in Upper \cup Lower \cup Digit \cup {"_"}

OpSeq == <<"-", ">">>
OpOpt == <<"-", ">", "?">>
OpPar == <<"|", "|">>
LParen == <<"(">>
RParen == <<")">>
\* Python's None where a token is expected
None == <<>>

HasPrefix(s, i, p) ==
    /\ i + Len(p) - 1 <= Len(s)
    /\ SubSeq(s, i, i + Len(p) - 1) = p

\* str.replace(old, new): every non-overlapping occurrence, left to right
RECURSIVE Replace(_, _, _)
Replace(s, old, new) ==
    IF Len(s) < Len(old) THEN s
    ELSE IF HasPrefix(s, 1, old)
         THEN new \o Replace(SubSeq(s, Len(old) + 1, Len(s)), old, new)
         ELSE <<s[1]>> \o Replace(Tail(s), old, new)

----------------------------------------------------------------------------
(* _tokenize *)

\* first index >= i of s that holds no whitespace (Len(s)+1 if none): \s*
RECURSIVE SkipSpace(_, _)
SkipSpace(s, i) ==
    IF i <= Len(s) /\ s[i] \in Space THEN SkipSpace(s, i + 1) ELSE i

\* end (exclusive) of the longest run of identifier characters from i
RECURSIVE IdentEnd(_, _)
IdentEnd(s, i) ==
    IF i <= Len(s) /\ IsIdentChar(s[i]) THEN IdentEnd(s, i + 1) ELSE i

\* the capture group of the token pattern tried at index j, alternatives in
\* the pattern's order: ->\? | -> | \|\| | [A-Za-z_][A-Za-z0-9_]* | [()]
GroupAt(s, j) ==
    IF HasPrefix(s, j, OpOpt) THEN OpOpt
    ELSE IF HasPrefix(s, j, OpSeq) THEN OpSeq
    ELSE IF HasPrefix(s, j, OpPar) THEN OpPar
    ELSE IF j <= Len(s) /\ IsIdentStart(s[j]) THEN SubSeq(s, j, IdentEnd(s, j) - 1)
    ELSE IF j <= Len(s) /\ s[j] \in {"(", ")"} THEN <<s[j]>>
    ELSE None

\* re.findall(pattern, s) from index i: a match consumes \s* token \s*; where
\* the pattern does not match, the scan moves on by one character
RECURSIVE FindAll(_, _)
FindAll(s, i) ==
    IF i > Len(s) THEN <<>>
    ELSE LET j == SkipSpace(s, i)
             g == GroupAt(s, j)
         IN  IF g = None
             THEN FindAll(s, i + 1)
             ELSE <<g>> \o FindAll(s, SkipSpace(s, j + Len(g)))

\* A variant that forgets the alias of the parallel operator: C13 must tell
\* it from Normalize.
Normalize_no_parallel(expr) ==
    Replace(Replace(expr, <<"U2192", "?">>, OpOpt), <<"U2192">>, OpSeq)

\* the normalisation of the Unicode aliases
Normalize(expr) ==
    Replace(Replace(Replace(expr, <<"U2192", "?">>, OpOpt), <<"U2192">>, OpSeq),
            <<"U21C4">>, OpPar)

_tokenize(expr) == FindAll(Normalize(expr), 1)

----------------------------------------------------------------------------
(* AST nodes and errors *)

StepNode(name) == [type |-> "StepNode", name |-> name]
SeqNode(left, right) == [type |-> "SeqNode", left |-> left, right |-> right]
OptNode(left, right) == [type |-> "OptNode", left |-> left, right |-> right]
ParNode(left, right) == [type |-> "ParNode", left |-> left, right |-> right]
\* ast_root = None
NoNode == [type |-> "None"]

\* A variant with one message for every failure: C20 must tell it from
\* ValueError.
ValueError_generic(msg, value, tok) ==
    [exc |-> "ValueError", msg |-> "Invalid expression", value |-> value, tok |-> tok]

\* raise ValueError(msg); value and tok are the values formatted into msg
ValueError(msg, value, tok) == [exc |-> "ValueError", msg |-> msg, value |-> value, tok |-> tok]
NoError == [exc |-> "none", msg |-> "", value |-> None, tok |-> None]

MsgEmpty == "Operator expression is empty or invalid"
MsgTrailing == "Unexpected tokens at end of expression"
MsgEnd == "Unexpected end of expression"
MsgExpected == "Expected '{value}', got '{tok}'"
MsgInvalid == "Invalid token '{tok}' in expression"
MsgDuplicate == "Duplicate step name detected: {s}"
MsgUnknown == "Unknown AST node type"
MsgExists == "Pipeline file already exists: {workflow_file}. Use --force to overwrite."

\* raise FileExistsError(MsgExists)
FileExistsError == [exc |-> "FileExistsError", msg |-> MsgExists, value |-> None, tok |-> None]

----------------------------------------------------------------------------
(* The parser: every function takes self._tokens and self._pos and returns  *)
(* the node built, the new self._pos and the exception raised, if any.     *)

Ok(node, p) == [node |-> node, pos |-> p, err |-> NoError]
Raise(p, err) == [node |-> NoNode, pos |-> p, err |-> err]

_peek(toks, p) == IF p < Len(toks) THEN toks[p + 1] ELSE None

\* re.match(r"^[A-Za-z_][A-Za-z0-9_]*$", tok)
IsIdentifier(tok) ==
    /\ Len(tok) >= 1
    /\ IsIdentStart(tok[1])
    /\ \A i \in 2..Len(tok) : IsIdentChar(tok[i])

\* A variant that compares the token with the expected value before it
\* looks for the end of the tokens: C14 must tell it from _eat.
_eat_value_first(toks, p, value) ==
    LET tok == _peek(toks, p)
    IN  IF value # None /\ tok # value
        THEN Raise(p, ValueError(MsgExpected, value, tok))
        ELSE IF tok = None THEN Raise(p, ValueError(MsgEnd, None, None))
             ELSE Ok(NoNode, p + 1)

\* A variant that moves the position on by two: C26 must tell it from _eat.
_eat_two(toks, p, value) ==
    LET tok == _peek(toks, p)
    IN  IF tok = None THEN Raise(p, ValueError(MsgEnd, None, None))
        ELSE IF value # None /\ tok # value
             THEN Raise(p, ValueError(MsgExpected, value, tok))
             ELSE Ok(NoNode, p + 2)

\* A variant that leaves the position where it is: C28 must tell it from
\* _eat.
_eat_stay(toks, p, value) ==
    LET tok == _peek(toks, p)
    IN  IF tok = None THEN Raise(p, ValueError(MsgEnd, None, None))
        ELSE IF value # None /\ tok # value
             THEN Raise(p, ValueError(MsgExpected, value, tok))
             ELSE Ok(NoNode, p)

_eat(toks, p, value) ==
    LET tok == _peek(toks, p)
    IN  IF tok = None THEN Raise(p, ValueError(MsgEnd, None, None))
        ELSE IF value # None /\ tok # value
             THEN Raise(p, ValueError(MsgExpected, value, tok))
             ELSE Ok(NoNode, p + 1)

RECURSIVE _parse_parallel(_, _)
RECURSIVE _parse_parallel_while(_, _)
RECURSIVE _parse_sequence(_, _)
RECURSIVE _parse_sequence_while(_, _)
RECURSIVE _parse_optional(_, _)
RECURSIVE _parse_optional_while(_, _)
RECURSIVE _parse_primary(_, _)

\* node = ParNode(node, rhs), and the loop goes on
_parse_parallel_fold(toks, cur, rhs) ==
    IF rhs.err # NoError THEN rhs
    ELSE _parse_parallel_while(toks, Ok(ParNode(cur.node, rhs.node), rhs.pos))

\* the loop of _parse_parallel; cur is the result so far
_parse_parallel_while(toks, cur) ==
    IF cur.err # NoError THEN cur
    ELSE IF _peek(toks, cur.pos) = OpPar
         THEN _parse_parallel_fold(toks, cur,
                  _parse_sequence(toks, _eat(toks, cur.pos, OpPar).pos))
         ELSE cur

\* parallel := sequence ( '||' sequence )*
_parse_parallel(toks, p) == _parse_parallel_while(toks, _parse_sequence(toks, p))

\* node = SeqNode(node, rhs), and the loop goes on
_parse_sequence_fold(toks, cur, rhs) ==
    IF rhs.err # NoError THEN rhs
    ELSE _parse_sequence_while(toks, Ok(SeqNode(cur.node, rhs.node), rhs.pos))

\* A variant of the sequence loop that parses the whole rest as its right
\* operand, which folds to the right: C5 must tell it from the loop below.
_parse_sequence_while_right(toks, cur) ==
    IF cur.err # NoError THEN cur
    ELSE IF _peek(toks, cur.pos) = OpSeq
         THEN _parse_sequence_fold(toks, cur,
                  _parse_sequence(toks, _eat(toks, cur.pos, OpSeq).pos))
         ELSE cur

\* the loop of _parse_sequence
_parse_sequence_while(toks, cur) ==
    IF cur.err # NoError THEN cur
    ELSE IF _peek(toks, cur.pos) = OpSeq
         THEN _parse_sequence_fold(toks, cur,
                  _parse_optional(toks, _eat(toks, cur.pos, OpSeq).pos))
         ELSE cur

\* sequence := optional ( '->' optional )*
_parse_sequence(toks, p) == _parse_sequence_while(toks, _parse_optional(toks, p))

\* node = OptNode(node, rhs), and the loop goes on
_parse_optional_fold(toks, cur, rhs) ==
    IF rhs.err # NoError THEN rhs
    ELSE _parse_optional_while(toks, Ok(OptNode(cur.node, rhs.node), rhs.pos))

\* A variant of the optional loop whose right operand is a whole sequence,
\* which makes ->? bind looser than ->: C4 must tell it from the loop below.
_parse_optional_while_loose(toks, cur) ==
    IF cur.err # NoError THEN cur
    ELSE IF _peek(toks, cur.pos) = OpOpt
         THEN _parse_optional_fold(toks, cur,
                  _parse_sequence(toks, _eat(toks, cur.pos, OpOpt).pos))
         ELSE cur

\* the loop of _parse_optional
_parse_optional_while(toks, cur) ==
    IF cur.err # NoError THEN cur
    ELSE IF _peek(toks, cur.pos) = OpOpt
         THEN _parse_optional_fold(toks, cur,
                  _parse_primary(toks, _eat(toks, cur.pos, OpOpt).pos))
         ELSE cur

\* optional := primary ( '->?' primary )*
_parse_optional(toks, p) == _parse_optional_while(toks, _parse_primary(toks, p))

\* A variant that returns the node without consuming the closing
\* parenthesis: C27 must tell it from _parse_primary_close.
_parse_primary_close_unconsumed(toks, node) ==
    IF node.err # NoError THEN node
    ELSE LET close == _eat(toks, node.pos, RParen)
         IN  IF close.err # NoError THEN close ELSE Ok(node.node, node.pos)

\* self._eat(")"); return node
_parse_primary_close(toks, node) ==
    IF node.err # NoError THEN node
    ELSE LET close == _eat(toks, node.pos, RParen)
         IN  IF close.err # NoError THEN close ELSE Ok(node.node, close.pos)

_parse_primary(toks, p) ==
    LET tok == _peek(toks, p)
    IN  IF tok = LParen
        THEN _parse_primary_close(toks, _parse_parallel(toks, _eat(toks, p, LParen).pos))
        ELSE IF tok = None THEN Raise(p, ValueError(MsgEnd, None, None))
        ELSE IF IsIdentifier(tok) THEN Ok(StepNode(tok), _eat(toks, p, None).pos)
        ELSE Raise(p, ValueError(MsgInvalid, None, tok))

\* A variant that returns the node whatever tokens are left: C15 must tell
\* it from AllConsumed.
AllConsumed_lenient(toks, node) == node

\* if self._pos != len(self._tokens): raise ...; return node
AllConsumed(toks, node) ==
    IF node.err # NoError THEN node
    ELSE IF node.pos # Len(toks)
         THEN Raise(node.pos, ValueError(MsgTrailing, None, None))
         ELSE node

\* _parse_expression after tokenizing: the root parse and the check that
\* every token was consumed
ParseTokens(toks) == AllConsumed(toks, _parse_parallel(toks, 0))

----------------------------------------------------------------------------
(* Validation *)

RECURSIVE _collect_steps(_)
_collect_steps(node) ==
    IF node.type = "StepNode" THEN {node.name}
    ELSE IF node.type \in {"SeqNode", "OptNode", "ParNode"}
         THEN _collect_steps(node.left) \cup _collect_steps(node.right)
         ELSE {}

\* str < str: by code point, a proper prefix first
RECURSIVE StrLess(_, _)
StrLess(a, b) ==
    IF Len(b) = 0 THEN FALSE
    ELSE IF Len(a) = 0 THEN TRUE
    ELSE IF a[1] # b[1] THEN Ord(a[1]) < Ord(b[1])
    ELSE StrLess(Tail(a), Tail(b))

\* A variant that lists the greatest name first: C24 must tell it from
\* sorted.
RECURSIVE sorted_descending(_)
sorted_descending(S) ==
    IF S = {} THEN <<>>
    ELSE LET m == CHOOSE x \in S : \A y \in S \ {x} : StrLess(y, x)
         IN  <<m>> \o sorted_descending(S \ {m})

\* sorted(S) of a set of str
RECURSIVE sorted(_)
sorted(S) ==
    IF S = {} THEN <<>>
    ELSE LET m == CHOOSE x \in S : \A y \in S \ {x} : StrLess(x, y)
         IN  <<m>> \o sorted(S \ {m})

\* the loop of _validate_steps_unique from element i on, with the set seen
RECURSIVE ValidateFrom(_, _, _)
ValidateFrom(ss, i, seen) ==
    IF i > Len(ss) THEN NoError
    ELSE IF ss[i] \in seen THEN ValueError(MsgDuplicate, None, ss[i])
    ELSE ValidateFrom(ss, i + 1, seen \cup {ss[i]})

_validate_steps_unique(ss) == ValidateFrom(ss, 1, {})

----------------------------------------------------------------------------
(* _snake_case *)

RECURSIVE LowerRunEnd(_, _)
LowerRunEnd(s, i) ==
    IF i <= Len(s) /\ s[i] \in Lower THEN LowerRunEnd(s, i + 1) ELSE i

\* re.sub(r"(.)([A-Z][a-z]+)", r"\1_\2", s), scanning from index i
RECURSIVE SubCapWord(_, _)
SubCapWord(s, i) ==
    IF i > Len(s) THEN <<>>
    ELSE IF i + 2 <= Len(s) /\ s[i + 1] \in Upper /\ s[i + 2] \in Lower
         THEN LET e == LowerRunEnd(s, i + 2)
              IN  <<s[i], "_">> \o SubSeq(s, i + 1, e - 1) \o SubCapWord(s, e)
         ELSE <<s[i]>> \o SubCapWord(s, i + 1)

\* re.sub(r"([a-z0-9])([A-Z])", r"\1_\2", s), scanning from index i
RECURSIVE SubCamel(_, _)
SubCamel(s, i) ==
    IF i > Len(s) THEN <<>>
    ELSE IF i + 1 <= Len(s) /\ s[i] \in Lower \cup Digit /\ s[i + 1] \in Upper
         THEN <<s[i], "_", s[i + 1]>> \o SubCamel(s, i + 2)
         ELSE <<s[i]>> \o SubCamel(s, i + 1)

_snake_case(value) ==
    LET a == SubCamel(SubCapWord(value, 1), 1)
        b == Replace(a, <<"-">>, <<"_">>)
    IN  [i \in 1..Len(b) |-> LowerChar(b[i])]

----------------------------------------------------------------------------
(* Lines of generated code.  A line is its indentation and its words; a    *)
(* word is a keyword or one of the calls / headers the compiler writes.    *)
(* The blank lines the compiler leaves between closures are not kept.      *)

Word(k) == [k |-> k, name |-> <<>>, ids |-> <<>>]
\* step_<snake_case(name)>(ctx)
StepCall(name) == [k |-> "step(ctx)", name |-> _snake_case(name), ids |-> <<>>]
\* _branch_<i>()
BranchCall(i) == [k |-> "_branch()", name |-> <<>>, ids |-> <<i>>]
\* asyncio.gather(_branch_<i>(), _branch_<j>())
Gather(i, j) == [k |-> "asyncio.gather()", name |-> <<>>, ids |-> <<i, j>>]
\* async def _branch_<i>():
AsyncDef(i) == [k |-> "async def", name |-> <<>>, ids |-> <<i>>]
\* if left_result is not None:
IfNotNone == Word("if left_result is not None:")
\* steps_completed = len(ctx['order'])
StepsCompleted == Word("steps_completed = len(ctx['order'])")

Line(indent, words) == [indent |-> indent, words |-> words]

RECURSIVE Flatten(_)
\* "\n".join(blocks): the lines of a list of multi-line strings
Flatten(blocks) ==
    IF blocks = <<>> THEN <<>> ELSE Head(blocks) \o Flatten(Tail(blocks))

\* "await " in line
HasAwait(line) == \E i \in 1..Len(line.words) : line.words[i] = Word("await")

\* line.replace("await ", "return await ", 1) if "await " in line else line
ReturnAwait(line) ==
    IF HasAwait(line)
    THEN LET i == CHOOSE i \in 1..Len(line.words) :
                      /\ line.words[i] = Word("await")
                      /\ \A j \in 1..(i - 1) : line.words[j] # Word("await")
         IN  Line(line.indent,
                  SubSeq(line.words, 1, i - 1) \o <<Word("return")>>
                      \o SubSeq(line.words, i, Len(line.words)))
    ELSE line

----------------------------------------------------------------------------
(* _compile_execution *)

\* the indentation of the body of run() in the template
BaseIndent == 8
\* one indentation level
IndentStep == 4

\* StepNode: one awaited invocation, no helper
StepEmit(name, indent) ==
    [lines |-> <<Line(indent, <<Word("await"), StepCall(name)>>)>>, prelude |-> <<>>]

\* A variant that emits right's lines above left's: C9 must tell it from
\* SeqEmit.
SeqEmit_reversed(l, r) ==
    [lines |-> r.lines \o l.lines, prelude |-> l.prelude \o r.prelude]

\* SeqNode, from the results l and r of compiling left and right
SeqEmit(l, r) ==
    [lines |-> l.lines \o r.lines, prelude |-> l.prelude \o r.prelude]

\* OptNode: l is left compiled at indent, h is left compiled again one level
\* deeper (the helper's body), r is right compiled one level deeper
OptEmit(indent, helper_name, l, h, r) ==
    LET helper == <<Line(indent, <<AsyncDef(helper_name)>>)>>
                      \o Flatten(h.prelude)
                      \o [i \in 1..Len(h.lines) |-> ReturnAwait(h.lines[i])]
        lines == <<Line(indent, <<Word("left_result"), Word("="), Word("await"),
                                  BranchCall(helper_name)>>),
                   Line(indent, <<IfNotNone>>)>>
    IN  [lines |-> lines \o r.lines,
         prelude |-> <<helper>> \o l.prelude \o h.prelude \o r.prelude]

\* A variant that awaits the two closures one after the other instead of
\* gathering them: C7 must tell it from ParEmit.
ParEmit_in_turn(indent, left_helper, right_helper, l, r) ==
    LET left_def == <<Line(indent, <<AsyncDef(left_helper)>>)>>
                        \o Flatten(l.prelude) \o l.lines
        right_def == <<Line(indent, <<AsyncDef(right_helper)>>)>>
                        \o Flatten(r.prelude) \o r.lines
    IN  [lines |-> <<Line(indent, <<Word("await"), BranchCall(left_helper)>>),
                     Line(indent, <<Word("await"), BranchCall(right_helper)>>)>>,
         prelude |-> <<left_def, right_def>>]

\* A variant that gathers the left closure twice and never the right one:
\* C8 must tell it from ParEmit.
ParEmit_left_twice(indent, left_helper, right_helper, l, r) ==
    LET left_def == <<Line(indent, <<AsyncDef(left_helper)>>)>>
                        \o Flatten(l.prelude) \o l.lines
        right_def == <<Line(indent, <<AsyncDef(right_helper)>>)>>
                        \o Flatten(r.prelude) \o r.lines
    IN  [lines |-> <<Line(indent, <<Word("await"), Gather(left_helper, left_helper)>>)>>,
         prelude |-> <<left_def, right_def>>]

\* ParNode: l and r are left and right compiled one level deeper
ParEmit(indent, left_helper, right_helper, l, r) ==
    LET left_def == <<Line(indent, <<AsyncDef(left_helper)>>)>>
                        \o Flatten(l.prelude) \o l.lines
        right_def == <<Line(indent, <<AsyncDef(right_helper)>>)>>
                        \o Flatten(r.prelude) \o r.lines
    IN  [lines |-> <<Line(indent, <<Word("await"), Gather(left_helper, right_helper)>>)>>,
         prelude |-> <<left_def, right_def>>]

\* new_branch_name: the counter after the call is the number in the name
new_branch_name(counter) == counter + 1

WithCounter(res, counter) ==
    [lines |-> res.lines, prelude |-> res.prelude, counter |-> counter]

\* compile_node(n, indent) with the closure's counter threaded through: the
\* result holds (lines, prelude) and the counter after the call
RECURSIVE compile_node(_, _, _)
compile_node(n, indent, counter) ==
    IF n.type = "StepNode"
    THEN WithCounter(StepEmit(n.name, indent), counter)
    ELSE IF n.type = "SeqNode"
    THEN LET l == compile_node(n.left, indent, counter)
             r == compile_node(n.right, indent, l.counter)
         IN  WithCounter(SeqEmit(l, r), r.counter)
    ELSE IF n.type = "OptNode"
    THEN LET l == compile_node(n.left, indent, counter)
             helper_name == new_branch_name(l.counter)
             h == compile_node(n.left, indent + IndentStep, helper_name)
             r == compile_node(n.right, indent + IndentStep, h.counter)
         IN  WithCounter(OptEmit(indent, helper_name, l, h, r), r.counter)
    ELSE LET left_helper == new_branch_name(counter)
             right_helper == new_branch_name(left_helper)
             l == compile_node(n.left, indent + IndentStep, right_helper)
             r == compile_node(n.right, indent + IndentStep, l.counter)
         IN  WithCounter(ParEmit(indent, left_helper, right_helper, l, r), r.counter)

\* A variant that knows step nodes only: C21 must tell it from KnownNodes.
KnownNodes_steps_only(n) == n.type = "StepNode"

\* no node of the tree falls through compile_node's isinstance tests to
\* raise ValueError("Unknown AST node type")
RECURSIVE KnownNodes(_)
KnownNodes(n) ==
    IF n.type = "StepNode" THEN TRUE
    ELSE IF n.type \in {"SeqNode", "OptNode", "ParNode"}
    THEN KnownNodes(n.left) /\ KnownNodes(n.right)
    ELSE FALSE

\* the assembled fragment: prelude, lines, then the progress counter line
_compile_execution(node) ==
    LET c == compile_node(node, BaseIndent, 0)
    IN  Flatten(c.prelude) \o c.lines \o <<Line(BaseIndent, <<StepsCompleted>>)>>

\* exec_snippets when no operators are given
StubSnippet == <<Line(0, <<Word("# No operators provided; add logic here")>>),
                 Line(4, <<Word("steps_completed = 0")>>)>>

----------------------------------------------------------------------------
(* The expressions generate() is called with *)

RECURSIVE Join(_)
\* " ".join(lexemes)
Join(ls) ==
    IF Len(ls) = 0 THEN <<>>
    ELSE IF Len(ls) = 1 THEN ls[1]
    ELSE ls[1] \o <<" ">> \o Join(Tail(ls))

LexemeSet == {<<"A">>, <<"B">>, <<"C">>, OpSeq, OpOpt, OpPar, LParen, RParen, <<"$">>}

\* every expression of at most MaxLexemes lexemes, one blank between lexemes
LexemeInputs ==
    UNION {{Join(ls) : ls \in [1..n -> LexemeSet]} : n \in 0..MaxLexemes}

CharSet == {"A", "b", "1", "-", ">", "?", "|", "(", ")", " ", "$", "U2192", "U21C4"}

\* every string of at most MaxChars characters
CharInputs == UNION {[1..n -> CharSet] : n \in 0..MaxChars}

LeafNames == <<<<"A">>, <<"B">>, <<"C">>, <<"D">>, <<"E">>, <<"F">>>>

\* the trees whose leaves are, left to right, the steps ns
RECURSIVE TreesOver(_)
TreesOver(ns) ==
    IF Len(ns) = 1 THEN {StepNode(ns[1])}
    ELSE UNION {
           LET L == TreesOver(SubSeq(ns, 1, k))
               R == TreesOver(SubSeq(ns, k + 1, Len(ns)))
           IN  {SeqNode(l, r) : l \in L, r \in R}
                 \cup {OptNode(l, r) : l \in L, r \in R}
                 \cup {ParNode(l, r) : l \in L, r \in R}
           : k \in 1..(Len(ns) - 1)}

\* binding strength of a node in the grammar: parallel 1, sequence 2,
\* optional 3, primary 4
Level(node) ==
    CASE node.type = "ParNode" -> 1
      [] node.type = "SeqNode" -> 2
      [] node.type = "OptNode" -> 3
      [] OTHER -> 4

OpOf(node) ==
    CASE node.type = "ParNode" -> OpPar
      [] node.type = "SeqNode" -> OpSeq
      [] OTHER -> OpOpt

\* the expression text of a tree, with the parentheses the grammar needs
RECURSIVE Unparse(_)
Unparse(node) ==
    IF node.type = "StepNode" THEN node.name
    ELSE LET paren(sub, need) ==
                 IF Level(sub) >= need THEN Unparse(sub)
                 ELSE <<"(", " ">> \o Unparse(sub) \o <<" ", ")">>
         IN  paren(node.left, Level(node)) \o <<" ">> \o OpOf(node) \o <<" ">>
                 \o paren(node.right, Level(node) + 1)

\* the well-formed expressions of at most MaxLeaves distinct steps
TreeInputs ==
    UNION {{Unparse(t) : t \in TreesOver(SubSeq(LeafNames, 1, n))} : n \in 1..MaxLeaves}

\* expressions whose step names differ in case or in an underscore only
ClashInputs ==
    {Join(<<<<"A">>, OpSeq, <<"a">>>>),
     Join(<<<<"A", "b", "C", "d">>, OpPar, <<"a", "b", "_", "c", "d">>>>)}

Inputs == LexemeInputs \cup CharInputs \cup TreeInputs \cup ClashInputs

----------------------------------------------------------------------------
(* PipelineGenerator.generate *)

\* A variant that takes every expression for a non-blank one: C17 must tell
\* it from NotBlank.
NotBlank_always(expr) == TRUE

\* operators.strip() is not empty
NotBlank(expr) == \E i \in 1..Len(expr) : expr[i] \notin Space

NoTasks == <<>>

\* workflows/<name>.py and tests/test_<name>.py; a file is absent, holds
\* what it held before the command ("old") or what the command wrote ("new")
FileNames == {"pipeline", "test"}

\* A variant that writes whether or not the file exists: C23 must tell it
\* from write_file.
write_file_overwriting(fs, path, overwrite) ==
    [fs |-> [fs EXCEPT ![path] = "new"], ok |-> TRUE]

\* utils.file_ops.write_file(path, content, overwrite)
write_file(fs, path, overwrite) ==
    IF fs[path] # "absent" /\ ~overwrite
    THEN [fs |-> fs, ok |-> FALSE]
    ELSE [fs |-> [fs EXCEPT ![path] = "new"], ok |-> TRUE]

\* BaseGenerator.write_output(path, content, force=force)
write_output(fs, path, frc) == write_file(fs, path, frc \/ FALSE)

\* the server command is not running
NoServer ==
    /\ stop_event = FALSE
    /\ threads = <<>>
    /\ thread = 0
    /\ bound = {}
    /\ reloader = "off"
    /\ reuse_port = FALSE

Init ==
    /\ operators \in Inputs
    /\ pc = "start"
    /\ tokens = <<>>
    /\ pos = 0
    /\ ast_root = NoNode
    /\ steps = <<>>
    /\ exec_snippets = StubSnippet
    /\ error = NoError
    /\ rt = "idle"
    /\ tasks = NoTasks
    /\ frames = <<>>
    /\ order = <<>>
    /\ steps_completed = 0
    /\ IF Len(operators) <= MaxOptionChars
       THEN /\ force \in BOOLEAN
            /\ with_tests \in BOOLEAN
            /\ dry_run \in BOOLEAN
            /\ files \in [FileNames -> {"absent", "old"}]
       ELSE /\ force = FALSE
            /\ with_tests = TRUE
            /\ dry_run = FALSE
            /\ files = [f \in FileNames |-> "absent"]
    /\ exit_code = <<>>
    /\ stderr = <<>>
    /\ NoServer
    /\ requests = <<>>
    /\ generators = <<>>

\* generate_pipeline: with --dry-run it prints what it would generate and
\* returns; else it calls generate(), which starts with
\* if operators and operators.strip():
Start ==
    /\ pc = "start"
    /\ exit_code = <<>>
    /\ IF dry_run
       THEN /\ exit_code' = <<0>>
            /\ UNCHANGED pc
       ELSE /\ pc' = IF Len(operators) > 0 /\ NotBlank(operators)
                     THEN "tokenize" ELSE "render"
            /\ UNCHANGED exit_code
    /\ UNCHANGED <<operators, tokens, pos, ast_root, steps, exec_snippets, error>>
    /\ UNCHANGED <<files, stderr>>
    /\ UNCHANGED runVars
    /\ UNCHANGED optVars
    /\ UNCHANGED reqVars
    /\ UNCHANGED srvVars

\* _parse_expression: tokens = self._tokenize(expr); self._tokens = tokens;
\* self._pos = 0
Tokenize ==
    /\ pc = "tokenize"
    /\ LET toks == _tokenize(operators)
       IN  IF toks = <<>>
           THEN /\ error' = ValueError(MsgEmpty, None, None)
                /\ pc' = "failed"
                /\ UNCHANGED <<tokens, pos>>
           ELSE /\ tokens' = toks
                /\ pos' = 0
                /\ pc' = "parse"
                /\ UNCHANGED error
    /\ UNCHANGED <<operators, ast_root, steps, exec_snippets>>
    /\ UNCHANGED runVars
    /\ UNCHANGED optVars
    /\ UNCHANGED reqVars
    /\ UNCHANGED srvVars
    /\ UNCHANGED outVars

\* _parse_expression: node = self._parse_parallel(); the trailing-token check
Parse ==
    /\ pc = "parse"
    /\ LET res == ParseTokens(tokens)
       IN  /\ pos' = res.pos
           /\ IF res.err # NoError
              THEN /\ error' = res.err
                   /\ pc' = "failed"
                   /\ UNCHANGED ast_root
              ELSE /\ ast_root' = res.node
                   /\ pc' = "collect"
                   /\ UNCHANGED error
    /\ UNCHANGED <<operators, tokens, steps, exec_snippets>>
    /\ UNCHANGED runVars
    /\ UNCHANGED optVars
    /\ UNCHANGED reqVars
    /\ UNCHANGED srvVars
    /\ UNCHANGED outVars

\* steps = sorted(self._collect_steps(ast_root))
Collect ==
    /\ pc = "collect"
    /\ steps' = sorted(_collect_steps(ast_root))
    /\ pc' = "validate"
    /\ UNCHANGED <<operators, tokens, pos, ast_root, exec_snippets, error>>
    /\ UNCHANGED runVars
    /\ UNCHANGED optVars
    /\ UNCHANGED reqVars
    /\ UNCHANGED srvVars
    /\ UNCHANGED outVars

\* self._validate_steps_unique(steps)
Validate ==
    /\ pc = "validate"
    /\ LET err == _validate_steps_unique(steps)
       IN  IF err # NoError
           THEN error' = err /\ pc' = "failed"
           ELSE pc' = "compile" /\ UNCHANGED error
    /\ UNCHANGED <<operators, tokens, pos, ast_root, steps, exec_snippets>>
    /\ UNCHANGED runVars
    /\ UNCHANGED optVars
    /\ UNCHANGED reqVars
    /\ UNCHANGED srvVars
    /\ UNCHANGED outVars

\* exec_snippets = self._compile_execution(ast_root)
Compile ==
    /\ pc = "compile"
    /\ IF KnownNodes(ast_root)
       THEN /\ exec_snippets' = _compile_execution(ast_root)
            /\ pc' = "render"
            /\ UNCHANGED error
       ELSE /\ error' = ValueError(MsgUnknown, None, None)
            /\ pc' = "failed"
            /\ UNCHANGED exec_snippets
    /\ UNCHANGED <<operators, tokens, pos, ast_root, steps>>
    /\ UNCHANGED runVars
    /\ UNCHANGED optVars
    /\ UNCHANGED reqVars
    /\ UNCHANGED srvVars
    /\ UNCHANGED outVars

\* the files generate() leaves: the pipeline file, then the smoke test
\* if with_tests and (not test_file.exists() or force)
Written(fs, frc, tests) ==
    LET one == write_output(fs, "pipeline", frc).fs
    IN  IF tests /\ (one["test"] = "absent" \/ frc)
        THEN write_output(one, "test", frc).fs
        ELSE one

\* generate(): if workflow_file.exists() and not force: raise
\* FileExistsError; else the template is rendered, the files are written,
\* generate() returns and generate_pipeline reports the files and returns
Render ==
    /\ pc = "render"
    /\ IF files["pipeline"] # "absent" /\ ~force
       THEN /\ error' = FileExistsError
            /\ pc' = "exists"
            /\ UNCHANGED <<files, exit_code>>
       ELSE /\ files' = Written(files, force, with_tests)
            /\ pc' = "generated"
            /\ exit_code' = <<0>>
            /\ UNCHANGED error
    /\ UNCHANGED <<operators, tokens, pos, ast_root, steps, exec_snippets, stderr>>
    /\ UNCHANGED runVars
    /\ UNCHANGED optVars
    /\ UNCHANGED reqVars
    /\ UNCHANGED srvVars

\* str(error): the message with its values formatted in; a literal part of
\* the message is one element of the text, a formatted value its characters
str(err) ==
    CASE err.msg = MsgExpected ->
            <<"Expected '">> \o err.value \o <<"', got '">> \o err.tok \o <<"'">>
      [] err.msg = MsgInvalid ->
            <<"Invalid token '">> \o err.tok \o <<"' in expression">>
      [] err.msg = MsgDuplicate ->
            <<"Duplicate step name detected: ">> \o err.tok
      [] err.msg = MsgExists ->
            <<"Pipeline file already exists: ", "workflows/<name>.py",
              ". Use --force to overwrite.">>
      [] OTHER -> <<err.msg>>

\* the phrases _format_error_with_suggestion looks for that occur in the
\* literal parts of str(error).lower(); the identifiers of the bounded
\* expressions spell none of them
Phrases(err) ==
    CASE err.msg = MsgExists -> {"already exists"}
      [] err.msg \in {MsgEmpty, MsgInvalid} -> {"invalid"}
      [] err.msg = MsgDuplicate -> {"name"}
      [] OTHER -> {}

\* _format_error_with_suggestion(error, "pipeline", name): the lines written
\* to standard error
_format_error_with_suggestion(err) ==
    IF "already exists" \in Phrases(err)
    THEN <<"Error: Pipeline '<name>' already exists", "Try one of these options: ...">>
    ELSE IF {"invalid", "name"} \subseteq Phrases(err)
    THEN <<"Error: Invalid pipeline name '<name>'", "Component names must be PascalCase: ...">>
    ELSE IF "permission" \in Phrases(err)
    THEN <<"Error: Permission denied writing pipeline", "Possible solutions: ...">>
    ELSE IF "not found" \in Phrases(err) \/ "does not exist" \in Phrases(err)
    THEN <<"Error: Required directory or file not found">> \o str(err)
             \o <<"This may indicate project structure issues: ...">>
    ELSE <<"Error: ">> \o str(err) \o <<"For more information: ...">>

\* A variant that reports the error and returns normally: C18 must tell it
\* from Catch.
Catch_returns ==
    /\ pc \in {"failed", "exists"}
    /\ exit_code = <<>>
    /\ stderr' = _format_error_with_suggestion(error)
    /\ exit_code' = <<0>>
    /\ UNCHANGED files
    /\ UNCHANGED genVars
    /\ UNCHANGED optVars
    /\ UNCHANGED reqVars
    /\ UNCHANGED srvVars
    /\ UNCHANGED runVars

\* generate_pipeline: except (ValueError, FileExistsError) as error:
\* _format_error_with_suggestion(error, "pipeline", name); sys.exit(1)
Catch ==
    /\ pc \in {"failed", "exists"}
    /\ exit_code = <<>>
    /\ stderr' = _format_error_with_suggestion(error)
    /\ exit_code' = <<1>>
    /\ UNCHANGED files
    /\ UNCHANGED genVars
    /\ UNCHANGED optVars
    /\ UNCHANGED reqVars
    /\ UNCHANGED srvVars
    /\ UNCHANGED runVars

----------------------------------------------------------------------------
(* Execution of the generated code.  exec_snippets is the body of the      *)
(* generated run(); Python compiles it, then runs it as the main task of   *)
(* an asyncio event loop.  A step invocation is a suspension point: other  *)
(* tasks may run between its start and its end.                            *)

IsCall(w) == w.k \in {"step(ctx)", "_branch()", "asyncio.gather()"}
IsHeader(line) == line.words \in {<<AsyncDef(i)>> : i \in 1..Len(exec_snippets)} \cup {<<IfNotNone>>}

\* the statement forms of Python among the lines the compiler can write
ValidStatement(words) ==
    \/ Len(words) = 1 /\ words[1].k \in {"async def", IfNotNone.k, StepsCompleted.k}
    \/ Len(words) = 2 /\ words[1] = Word("await") /\ IsCall(words[2])
    \/ Len(words) = 3 /\ words[1] = Word("return") /\ words[2] = Word("await")
          /\ IsCall(words[3])
    \/ Len(words) = 4 /\ words[1] = Word("left_result") /\ words[2] = Word("=")
          /\ words[3] = Word("await") /\ IsCall(words[4])

\* Python's indentation rule from line i on: open is the stack of the open
\* blocks' indentations, header tells whether line i-1 opened a block
RECURSIVE IndentOK(_, _, _, _)
IndentOK(ls, i, open, header) ==
    IF i > Len(ls) THEN ~header
    ELSE LET d == ls[i].indent
             top == open[Len(open)]
             keep == {k \in 1..Len(open) : open[k] <= d}
             kmax == CHOOSE k \in keep : \A m \in keep : m <= k
         IN  IF header
             THEN d > top /\ IndentOK(ls, i + 1, Append(open, d), IsHeader(ls[i]))
             ELSE /\ d <= top
                  /\ keep # {}
                  /\ open[kmax] = d
                  /\ IndentOK(ls, i + 1, SubSeq(open, 1, kmax), IsHeader(ls[i]))

\* compile() accepts the generated function
SyntaxOK(ls) ==
    /\ \A i \in 1..Len(ls) : ValidStatement(ls[i].words)
    /\ IndentOK(ls, 2, <<ls[1].indent>>, IsHeader(ls[1]))

\* the first line after the block that line i opens
BlockEnd(ls, i) ==
    LET after == {j \in (i + 1)..Len(ls) : ls[j].indent <= ls[i].indent}
    IN  IF after = {} THEN Len(ls) + 1
        ELSE CHOOSE j \in after : \A m \in after : j <= m

NoClosure == [line |-> 0, env |-> 0]

\* the closure the name _branch_<k> denotes in frame f: the frame's own
\* binding, else that of the enclosing scopes
RECURSIVE Lookup(_, _, _)
Lookup(fs, f, k) ==
    IF f = 0 THEN NoClosure
    ELSE IF \E b \in fs[f].locals : b.id = k
         THEN [line |-> (CHOOSE b \in fs[f].locals : b.id = k).line, env |-> f]
         ELSE Lookup(fs, fs[f].parent, k)

NewFrame(parent) == [parent |-> parent, locals |-> {}, left_result |-> "unset"]
Activation(f, start, end) == [frame |-> f, pc |-> start, end |-> end]
NewTask(parent, act) == [stack |-> <<act>>, status |-> "ready", parent |-> parent, kids |-> {}]

\* the state of one execution, as the operators below transform it
Machine == [tasks |-> tasks, frames |-> frames, rt |-> rt, order |-> order,
            steps_completed |-> steps_completed]

TopOf(m, t) == m.tasks[t].stack[Len(m.tasks[t].stack)]
LineOf(m, t) == exec_snippets[TopOf(m, t).pc]
\* the call word of the line task t is at
CallOf(m, t) == LineOf(m, t).words[Len(LineOf(m, t).words)]
\* the line returns the value of its await
IsReturn(m, t) == LineOf(m, t).words[1] = Word("return")

\* the step stubs of the template record the step's name in ctx['order']
StepNameOf(snake) ==
    LET c == {i \in 1..Len(steps) : _snake_case(steps[i]) = snake}
    IN  IF c = {} THEN snake ELSE steps[CHOOSE i \in c : \A n \in c : n <= i]

\* task t moves its top activation to line p
Goto(m, t, p) ==
    [m EXCEPT !.tasks[t].stack[Len(m.tasks[t].stack)].pc = p,
              !.tasks[t].status = "ready"]

\* the function on top of task t's stack returns v
ReturnFrom(m, t, v) ==
    LET st == m.tasks[t].stack
        n == Len(st)
    IN  IF n = 1
        THEN [m EXCEPT !.tasks[t].stack = <<>>,
                       !.tasks[t].status = "done",
                       !.rt = IF m.tasks[t].parent = 0 THEN "finished" ELSE @]
        ELSE \* the caller is at "left_result = await _branch_k()"
             [m EXCEPT !.tasks[t].stack =
                           [SubSeq(st, 1, n - 1) EXCEPT ![n - 1].pc = st[n - 1].pc + 1],
                       !.tasks[t].status = "ready",
                       !.frames[st[n - 1].frame].left_result = v]

\* an exception leaves task t: nothing in the generated body catches it
Fail(m, t) ==
    [m EXCEPT !.tasks[t].stack = <<>>,
              !.tasks[t].status = "failed",
              !.rt = IF m.tasks[t].parent = 0 THEN "NameError" ELSE @]

\* the ready task t executes the statement it is at
Statement(m, t) ==
    LET a == TopOf(m, t)
        k == LineOf(m, t).words[1].k
        call == CallOf(m, t)
    IN  IF a.pc >= a.end
        THEN \* the end of the body: return None
             ReturnFrom(m, t, "None")
        ELSE IF k = "async def"
        THEN \* bind the closure in the current scope, skip its body
             Goto([m EXCEPT !.frames[a.frame].locals =
                                {b \in @ : b.id # call.ids[1]}
                                    \cup {[id |-> call.ids[1], line |-> a.pc]}],
                  t, BlockEnd(exec_snippets, a.pc))
        ELSE IF k = IfNotNone.k
        THEN IF m.frames[a.frame].left_result = "unset" THEN Fail(m, t)
             ELSE IF m.frames[a.frame].left_result = "None"
                  THEN Goto(m, t, BlockEnd(exec_snippets, a.pc))
                  ELSE Goto(m, t, a.pc + 1)
        ELSE IF k = StepsCompleted.k
        THEN Goto([m EXCEPT !.steps_completed = Len(m.order)], t, a.pc + 1)
        ELSE IF call.k = "step(ctx)"
        THEN \* the step function starts and suspends
             [m EXCEPT !.tasks[t].status = "in_step"]
        ELSE IF call.k = "_branch()"
        THEN \* call the closure in this task
             LET c == Lookup(m.frames, a.frame, call.ids[1])
             IN  IF c = NoClosure THEN Fail(m, t)
                 ELSE [m EXCEPT !.frames = Append(@, NewFrame(c.env)),
                                !.tasks[t].stack = Append(@,
                                    Activation(Len(m.frames) + 1, c.line + 1,
                                               BlockEnd(exec_snippets, c.line)))]
        ELSE \* asyncio.gather: both closures become tasks, this task waits
             LET c1 == Lookup(m.frames, a.frame, call.ids[1])
                 c2 == Lookup(m.frames, a.frame, call.ids[2])
                 n == Len(m.tasks)
                 f == Len(m.frames)
             IN  IF c1 = NoClosure \/ c2 = NoClosure THEN Fail(m, t)
                 ELSE [m EXCEPT
                         !.frames = @ \o <<NewFrame(c1.env), NewFrame(c2.env)>>,
                         !.tasks = [@ EXCEPT ![t].status = "waiting",
                                             ![t].kids = {n + 1, n + 2}]
                             \o <<NewTask(t, Activation(f + 1, c1.line + 1,
                                              BlockEnd(exec_snippets, c1.line))),
                                  NewTask(t, Activation(f + 2, c2.line + 1,
                                              BlockEnd(exec_snippets, c2.line)))>>]

\* task t runs until it suspends, ends or raises: asyncio never preempts it
RECURSIVE RunTask(_, _)
RunTask(m, t) ==
    IF m.tasks[t].status = "ready" THEN RunTask(Statement(m, t), t) ELSE m

Becomes(m) ==
    /\ tasks' = m.tasks
    /\ frames' = m.frames
    /\ rt' = m.rt
    /\ order' = m.order
    /\ steps_completed' = m.steps_completed

\* Python compiles the generated function and the event loop creates the
\* main task for run()
Load ==
    /\ pc = "generated"
    /\ rt = "idle"
    /\ ast_root # NoNode
    /\ IF SyntaxOK(exec_snippets)
       THEN /\ rt' = "running"
            /\ frames' = <<NewFrame(0)>>
            /\ tasks' = <<NewTask(0, Activation(1, 1, Len(exec_snippets) + 1))>>
       ELSE /\ rt' = "SyntaxError"
            /\ UNCHANGED <<tasks, frames>>
    /\ UNCHANGED <<order, steps_completed>>
    /\ UNCHANGED genVars
    /\ UNCHANGED optVars
    /\ UNCHANGED reqVars
    /\ UNCHANGED srvVars
    /\ UNCHANGED outVars

\* the event loop runs the new task t up to its first suspension
Exec(t) ==
    /\ rt \in {"running", "NameError"}
    /\ tasks[t].status = "ready"
    /\ Becomes(RunTask(Machine, t))
    /\ UNCHANGED genVars
    /\ UNCHANGED optVars
    /\ UNCHANGED reqVars
    /\ UNCHANGED srvVars
    /\ UNCHANGED outVars

\* the step task t awaits ends with result v: the stub records the step in
\* ctx['order'], and t runs on to its next suspension
StepEnd(t, v) ==
    /\ rt \in {"running", "NameError"}
    /\ tasks[t].status = "in_step"
    /\ LET m == [Machine EXCEPT !.order = Append(@, StepNameOf(CallOf(Machine, t).name))]
       IN  Becomes(RunTask(IF IsReturn(m, t)
                           THEN ReturnFrom(m, t, v)
                           ELSE Goto(m, t, TopOf(m, t).pc + 1), t))
    /\ UNCHANGED genVars
    /\ UNCHANGED optVars
    /\ UNCHANGED reqVars
    /\ UNCHANGED srvVars
    /\ UNCHANGED outVars

\* the gather task t waits on is over (both tasks done, or one raised): t
\* runs on to its next suspension
Resume(t) ==
    /\ rt \in {"running", "NameError"}
    /\ tasks[t].status = "waiting"
    /\ IF \E c \in tasks[t].kids : tasks[c].status = "failed"
       THEN Becomes(Fail(Machine, t))
       ELSE /\ \A c \in tasks[t].kids : tasks[c].status = "done"
            /\ Becomes(RunTask(IF IsReturn(Machine, t)
                               THEN ReturnFrom(Machine, t, "value")
                               ELSE Goto(Machine, t, TopOf(Machine, t).pc + 1), t))
    /\ UNCHANGED genVars
    /\ UNCHANGED optVars
    /\ UNCHANGED reqVars
    /\ UNCHANGED srvVars
    /\ UNCHANGED outVars

Next ==
    \/ Start
    \/ Tokenize
    \/ Parse
    \/ Collect
    \/ Validate
    \/ Compile
    \/ Render
    \/ Catch
    \/ Load
    \/ \E t \in 1..Len(tasks) : Exec(t)
    \/ \E t \in 1..Len(tasks), v \in {"None", "value"} : StepEnd(t, v)
    \/ \E t \in 1..Len(tasks) : Resume(t)

Spec == Init /\ [][Next]_vars

\* self._parse_expression(expr) called on its own, with any string: generate()
\* calls it for the expressions that are not blank only
ParseExpression ==
    /\ pc = "start"
    /\ pc' = "tokenize"
    /\ UNCHANGED <<operators, tokens, pos, ast_root, steps, exec_snippets, error>>
    /\ UNCHANGED runVars
    /\ UNCHANGED optVars
    /\ UNCHANGED reqVars
    /\ UNCHANGED srvVars
    /\ UNCHANGED outVars

NextCore ==
    \/ ParseExpression
    \/ Tokenize
    \/ Parse

SpecCore == Init /\ [][NextCore]_vars

\* the step lists a direct call of _validate_steps_unique is tried with
StepLists == UNION {[1..n -> {<<"A">>, <<"B">>}] : n \in 0..MaxLeaves}

\* self._validate_steps_unique(ss) called on its own, with any list (no
\* expression is involved); generate() calls it with a sorted set only
ValidateStepsUnique(ss) ==
    /\ pc = "start"
    /\ operators = <<>>
    /\ steps' = ss
    /\ LET err == _validate_steps_unique(ss)
       IN  IF err # NoError
           THEN error' = err /\ pc' = "failed"
           ELSE pc' = "validated" /\ UNCHANGED error
    /\ UNCHANGED <<operators, tokens, pos, ast_root, exec_snippets>>
    /\ UNCHANGED runVars
    /\ UNCHANGED optVars
    /\ UNCHANGED reqVars
    /\ UNCHANGED srvVars
    /\ UNCHANGED outVars

\* the functions of the core that raise, each called on its own
NextCalls ==
    \/ ParseExpression
    \/ Tokenize
    \/ Parse
    \/ \E ss \in StepLists : ValidateStepsUnique(ss)

SpecCalls == Init /\ [][NextCalls]_vars

----------------------------------------------------------------------------
(* Generation requests run side by side.  Each request is one call of      *)
(* generate_pipeline, which creates its own PipelineGenerator; the parser  *)
(* keeps its token list and its position on that object.  A request runs  *)
(* from one access of self._tokens / self._pos to the next; what lies      *)
(* between two accesses works on locals only.  Files are left out.         *)

Requests == {1, 2}

\* A variant in which every request uses one and the same generator
\* object: C22 must tell it from InstanceOf.
InstanceOf_shared(r) == 1

\* generator = PipelineGenerator(): a new object for each request
InstanceOf(r) == r

\* before _parse_expression has run on it
NoGenerator == [tokens |-> <<>>, pos |-> 0]

RecursionError ==
    [exc |-> "RecursionError", msg |-> "maximum recursion depth exceeded",
     value |-> None, tok |-> None]

\* a method in progress: where it stands and its local node
Frame(fn, at, node) == [fn |-> fn, at |-> at, node |-> node]

Levels == {"_parse_parallel", "_parse_sequence", "_parse_optional"}

\* the operator a level's loop looks for
OperatorOf(fn) ==
    CASE fn = "_parse_parallel" -> OpPar
      [] fn = "_parse_sequence" -> OpSeq
      [] fn = "_parse_optional" -> OpOpt

\* node = ParNode(node, rhs) / SeqNode(node, rhs) / OptNode(node, rhs)
NodeOf(fn, l, r) ==
    CASE fn = "_parse_parallel" -> ParNode(l, r)
      [] fn = "_parse_sequence" -> SeqNode(l, r)
      [] fn = "_parse_optional" -> OptNode(l, r)

\* the frames a call of fn stacks up before a token is looked at: each
\* level starts by calling the next one, down to _parse_primary
CallChain(fn) ==
    CASE fn = "_parse_parallel" ->
            <<Frame("_parse_parallel", "first", NoNode), Frame("_parse_sequence", "first", NoNode),
              Frame("_parse_optional", "first", NoNode), Frame("_parse_primary", "enter", NoNode)>>
      [] fn = "_parse_sequence" ->
            <<Frame("_parse_sequence", "first", NoNode),
              Frame("_parse_optional", "first", NoNode), Frame("_parse_primary", "enter", NoNode)>>
      [] fn = "_parse_optional" ->
            <<Frame("_parse_optional", "first", NoNode), Frame("_parse_primary", "enter", NoNode)>>
      [] fn = "_parse_primary" -> <<Frame("_parse_primary", "enter", NoNode)>>

\* the method a level calls for its operands
Operand(fn) ==
    CASE fn = "_parse_parallel" -> "_parse_sequence"
      [] fn = "_parse_sequence" -> "_parse_optional"
      [] fn = "_parse_optional" -> "_parse_primary"

NewRequest(expr) ==
    [expr |-> expr, status |-> "new", stack |-> <<>>, ret |-> NoNode,
     ast |-> NoNode, err |-> NoError, steps |-> <<>>, fragment |-> StubSnippet,
     eaten |-> <<>>]

Top(q) == q.stack[Len(q.stack)]

\* the exception err leaves every method of the request
Raised(q, err) == [q EXCEPT !.stack = <<>>, !.status = "raised", !.err = err]

\* the top method moves to `at` with local node `node` and calls fn
Call(q, at, node, fn) ==
    IF Len(q.stack) + Len(CallChain(fn)) > RecursionLimit
    THEN Raised(q, RecursionError)
    ELSE [q EXCEPT !.stack = SubSeq(@, 1, Len(@) - 1)
                              \o <<Frame(Top(q).fn, at, node)>> \o CallChain(fn)]

\* the top method returns node to its caller
Return(q, node) == [q EXCEPT !.stack = SubSeq(@, 1, Len(@) - 1), !.ret = node]

\* self._eat(value) by the request: the position moves on and the index
\* of the token consumed is noted
Eat(q, gen, value) ==
    LET res == _eat(gen.tokens, gen.pos, value)
    IN  [err |-> res.err,
         gen |-> [gen EXCEPT !.pos = res.pos],
         q |-> [q EXCEPT !.eaten = Append(@, gen.pos)]]

Running(r, fn, ats) ==
    /\ requests[r].status = "running"
    /\ Top(requests[r]).fn = fn
    /\ Top(requests[r]).at \in ats

\* generate(): if operators and operators.strip(): ... _parse_expression
Enter(r) ==
    /\ requests[r].status = "new"
    /\ requests' = [requests EXCEPT ![r] =
          IF Len(@.expr) > 0 /\ NotBlank(@.expr)
          THEN [@ EXCEPT !.status = "running",
                         !.stack = <<Frame("_parse_expression", "tokenize", NoNode)>>]
          ELSE [@ EXCEPT !.status = "done"]]
    /\ UNCHANGED generators
    /\ UNCHANGED <<genVars, optVars, outVars, runVars, srvVars>>

\* tokens = self._tokenize(expr); self._tokens = tokens
StoreTokens(r) ==
    /\ Running(r, "_parse_expression", {"tokenize"})
    /\ LET q == requests[r]
           toks == _tokenize(q.expr)
       IN  IF toks = <<>>
           THEN /\ requests' = [requests EXCEPT ![r] =
                       Raised(q, ValueError(MsgEmpty, None, None))]
                /\ UNCHANGED generators
           ELSE /\ generators' = [generators EXCEPT ![InstanceOf(r)].tokens = toks]
                /\ requests' = [requests EXCEPT ![r].stack =
                       <<Frame("_parse_expression", "reset", NoNode)>>]
    /\ UNCHANGED <<genVars, optVars, outVars, runVars, srvVars>>

\* self._pos = 0; node = self._parse_parallel()
ResetPos(r) ==
    /\ Running(r, "_parse_expression", {"reset"})
    /\ generators' = [generators EXCEPT ![InstanceOf(r)].pos = 0]
    /\ requests' = [requests EXCEPT ![r] = Call(@, "check", NoNode, "_parse_parallel")]
    /\ UNCHANGED <<genVars, optVars, outVars, runVars, srvVars>>

\* _parse_primary up to its first return or call
Primary(r) ==
    /\ Running(r, "_parse_primary", {"enter"})
    /\ LET q == requests[r]
           gen == generators[InstanceOf(r)]
           tok == _peek(gen.tokens, gen.pos)
           e == Eat(q, gen, IF tok = LParen THEN LParen ELSE None)
       IN  IF tok = None
           THEN /\ requests' = [requests EXCEPT ![r] =
                       Raised(q, ValueError(MsgEnd, None, None))]
                /\ UNCHANGED generators
           ELSE IF tok # LParen /\ ~IsIdentifier(tok)
           THEN /\ requests' = [requests EXCEPT ![r] =
                       Raised(q, ValueError(MsgInvalid, None, tok))]
                /\ UNCHANGED generators
           ELSE IF e.err # NoError
           THEN /\ requests' = [requests EXCEPT ![r] = Raised(q, e.err)]
                /\ UNCHANGED generators
           ELSE /\ generators' = [generators EXCEPT ![InstanceOf(r)] = e.gen]
                /\ requests' = [requests EXCEPT ![r] =
                       IF tok = LParen
                       THEN Call(e.q, "close", NoNode, "_parse_parallel")
                       ELSE Return(e.q, StepNode(tok))]
    /\ UNCHANGED <<genVars, optVars, outVars, runVars, srvVars>>

\* _parse_primary after the parenthesised expression: self._eat(")");
\* return node
CloseParen(r) ==
    /\ Running(r, "_parse_primary", {"close"})
    /\ LET q == requests[r]
           e == Eat(q, generators[InstanceOf(r)], RParen)
       IN  IF e.err # NoError
           THEN /\ requests' = [requests EXCEPT ![r] = Raised(q, e.err)]
                /\ UNCHANGED generators
           ELSE /\ generators' = [generators EXCEPT ![InstanceOf(r)] = e.gen]
                /\ requests' = [requests EXCEPT ![r] = Return(e.q, q.ret)]
    /\ UNCHANGED <<genVars, optVars, outVars, runVars, srvVars>>

\* a level takes the operand returned to it (its first node, or the rhs it
\* folds into its node) and tests its loop: while self._peek() == op:
\* self._eat(op); rhs = <operand>(); else return node
Loop(r) ==
    /\ \E fn \in Levels : Running(r, fn, {"first", "rhs"})
    /\ LET q == requests[r]
           fn == Top(q).fn
           node == IF Top(q).at = "first" THEN q.ret ELSE NodeOf(fn, Top(q).node, q.ret)
           gen == generators[InstanceOf(r)]
           e == Eat(q, gen, OperatorOf(fn))
       IN  IF _peek(gen.tokens, gen.pos) # OperatorOf(fn)
           THEN /\ requests' = [requests EXCEPT ![r] = Return(q, node)]
                /\ UNCHANGED generators
           ELSE IF e.err # NoError
           THEN /\ requests' = [requests EXCEPT ![r] = Raised(q, e.err)]
                /\ UNCHANGED generators
           ELSE /\ generators' = [generators EXCEPT ![InstanceOf(r)] = e.gen]
                /\ requests' = [requests EXCEPT ![r] = Call(e.q, "rhs", node, Operand(fn))]
    /\ UNCHANGED <<genVars, optVars, outVars, runVars, srvVars>>

\* _parse_expression: if self._pos != len(self._tokens): raise; return node
CheckConsumed(r) ==
    /\ Running(r, "_parse_expression", {"check"})
    /\ LET q == requests[r]
           gen == generators[InstanceOf(r)]
       IN  requests' = [requests EXCEPT ![r] =
              IF gen.pos # Len(gen.tokens)
              THEN Raised(q, ValueError(MsgTrailing, None, None))
              ELSE [q EXCEPT !.stack = <<>>, !.status = "parsed", !.ast = q.ret]]
    /\ UNCHANGED generators
    /\ UNCHANGED <<genVars, optVars, outVars, runVars, srvVars>>

\* generate(): steps = sorted(self._collect_steps(ast_root));
\* self._validate_steps_unique(steps);
\* exec_snippets = self._compile_execution(ast_root): locals only
Finish(r) ==
    /\ requests[r].status = "parsed"
    /\ LET q == requests[r]
           ss == sorted(_collect_steps(q.ast))
           err == _validate_steps_unique(ss)
       IN  requests' = [requests EXCEPT ![r] =
              IF err # NoError THEN Raised([q EXCEPT !.steps = ss], err)
              ELSE IF ~KnownNodes(q.ast)
              THEN Raised([q EXCEPT !.steps = ss], ValueError(MsgUnknown, None, None))
              ELSE [q EXCEPT !.steps = ss, !.status = "done",
                             !.fragment = _compile_execution(q.ast)]]
    /\ UNCHANGED generators
    /\ UNCHANGED <<genVars, optVars, outVars, runVars, srvVars>>

\* the expressions of the first request: every one of at most
\* MaxRequestLexemes lexemes, and the well-formed ones
RequestInputs ==
    UNION {{Join(ls) : ls \in [1..n -> LexemeSet]} : n \in 0..MaxRequestLexemes}
        \cup TreeInputs

\* the expressions of the second request: one that parses and one that
\* does not
OtherInputs ==
    {Join(<<LParen, <<"A">>, RParen, OpPar, <<"B">>>>), Join(<<<<"A">>, OpSeq>>)}

InitRequests ==
    /\ operators = <<>>
    /\ pc = "start"
    /\ tokens = <<>>
    /\ pos = 0
    /\ ast_root = NoNode
    /\ steps = <<>>
    /\ exec_snippets = StubSnippet
    /\ error = NoError
    /\ rt = "idle"
    /\ tasks = NoTasks
    /\ frames = <<>>
    /\ order = <<>>
    /\ steps_completed = 0
    /\ force = FALSE
    /\ with_tests = TRUE
    /\ dry_run = FALSE
    /\ files = [f \in FileNames |-> "absent"]
    /\ exit_code = <<>>
    /\ stderr = <<>>
    /\ NoServer
    /\ \E e1 \in RequestInputs, e2 \in OtherInputs :
          requests = [r \in Requests |-> NewRequest(IF r = 1 THEN e1 ELSE e2)]
    /\ generators = [g \in Requests |-> NoGenerator]

NextRequests ==
    \/ \E r \in Requests : Enter(r)
    \/ \E r \in Requests : StoreTokens(r)
    \/ \E r \in Requests : ResetPos(r)
    \/ \E r \in Requests : Primary(r)
    \/ \E r \in Requests : CloseParen(r)
    \/ \E r \in Requests : Loop(r)
    \/ \E r \in Requests : CheckConsumed(r)
    \/ \E r \in Requests : Finish(r)

SpecRequests == InitRequests /\ [][NextRequests]_vars

\* what StoreTokens has made of a request for expr that has entered
\* _parse_expression
Tokenized(expr) ==
    IF ~(Len(expr) > 0 /\ NotBlank(expr))
    THEN [NewRequest(expr) EXCEPT !.status = "done"]
    ELSE IF _tokenize(expr) = <<>>
    THEN Raised(NewRequest(expr), ValueError(MsgEmpty, None, None))
    ELSE [NewRequest(expr) EXCEPT !.status = "running",
                                  !.stack = <<Frame("_parse_expression", "reset", NoNode)>>]

\* the parse of a token list: the requests have stored their tokens and
\* are about to set the position
InitParse ==
    /\ operators = <<>>
    /\ pc = "start"
    /\ tokens = <<>>
    /\ pos = 0
    /\ ast_root = NoNode
    /\ steps = <<>>
    /\ exec_snippets = StubSnippet
    /\ error = NoError
    /\ rt = "idle"
    /\ tasks = NoTasks
    /\ frames = <<>>
    /\ order = <<>>
    /\ steps_completed = 0
    /\ force = FALSE
    /\ with_tests = TRUE
    /\ dry_run = FALSE
    /\ files = [f \in FileNames |-> "absent"]
    /\ exit_code = <<>>
    /\ stderr = <<>>
    /\ NoServer
    /\ \E e1 \in RequestInputs, e2 \in OtherInputs :
          /\ requests = [r \in Requests |-> Tokenized(IF r = 1 THEN e1 ELSE e2)]
          /\ generators = [g \in Requests |->
                [tokens |-> _tokenize(IF g = 1 THEN e1 ELSE e2), pos |-> 0]]

\* the steps from the first look at a token to the return of
\* _parse_expression
NextParse ==
    \/ \E r \in Requests : ResetPos(r)
    \/ \E r \in Requests : Primary(r)
    \/ \E r \in Requests : CloseParen(r)
    \/ \E r \in Requests : Loop(r)
    \/ \E r \in Requests : CheckConsumed(r)

\* the interpreter goes on executing: as long as some parse has a step to
\* take, a step is taken
FairParse == InitParse /\ [][NextParse]_vars /\ WF_vars(NextParse)

----------------------------------------------------------------------------
(* The development server in reload mode.  The main thread starts a server *)
(* thread and watches the project; on a change it sets the stop event,     *)
(* joins the server thread for at most two seconds, clears the event and   *)
(* starts a new server thread.  A server thread binds the port and serves  *)
(* one request at a time until it finds the event set.                     *)

\* restarts enumerated
MaxRestarts == 2

\* _serve between `while not stop_event.is_set()` and its exit
ServeLoop == {"poll", "waiting", "handling"}

\* threading.Thread(target=_serve, ...); t.start()
NewThread == [at |-> "started"]

Alive(t) == threads[t].at \in {"started"} \cup ServeLoop

\* server(): stop_event = threading.Event(); thread = run_once(); the
\* reloader starts with its first snapshot taken
InitServer ==
    /\ operators = <<>>
    /\ pc = "start"
    /\ tokens = <<>>
    /\ pos = 0
    /\ ast_root = NoNode
    /\ steps = <<>>
    /\ exec_snippets = StubSnippet
    /\ error = NoError
    /\ rt = "idle"
    /\ tasks = NoTasks
    /\ frames = <<>>
    /\ order = <<>>
    /\ steps_completed = 0
    /\ force = FALSE
    /\ with_tests = TRUE
    /\ dry_run = FALSE
    /\ files = [f \in FileNames |-> "absent"]
    /\ exit_code = <<>>
    /\ stderr = <<>>
    /\ requests = <<>>
    /\ generators = <<>>
    /\ stop_event = FALSE
    /\ threads = <<NewThread>>
    /\ thread = 1
    /\ bound = {}
    /\ reloader = "watching"
    /\ reuse_port \in BOOLEAN

ServerFrame == UNCHANGED <<genVars, optVars, outVars, runVars, reqVars, reuse_port>>

\* _serve: httpd = HTTPServer((host, port), handler).  With the port bound
\* by another server thread the constructor raises OSError and the thread
\* ends, unless the platform lets the address be bound again
Bind(t) ==
    /\ threads[t].at = "started"
    /\ IF bound = {} \/ reuse_port
       THEN /\ threads' = [threads EXCEPT ![t].at = "poll"]
            /\ bound' = bound \cup {t}
       ELSE /\ threads' = [threads EXCEPT ![t].at = "failed"]
            /\ UNCHANGED bound
    /\ UNCHANGED <<stop_event, thread, reloader>>
    /\ ServerFrame

\* _serve: while not stop_event.is_set(): ...; on exit httpd goes out of
\* scope and its socket is closed
Poll(t) ==
    /\ threads[t].at = "poll"
    /\ IF stop_event
       THEN /\ threads' = [threads EXCEPT ![t].at = "done"]
            /\ bound' = bound \ {t}
       ELSE /\ threads' = [threads EXCEPT ![t].at = "waiting"]
            /\ UNCHANGED bound
    /\ UNCHANGED <<stop_event, thread, reloader>>
    /\ ServerFrame

\* httpd.handle_request() returns after httpd.timeout with no request
NoRequest(t) ==
    /\ threads[t].at = "waiting"
    /\ threads' = [threads EXCEPT ![t].at = "poll"]
    /\ UNCHANGED <<stop_event, thread, bound, reloader>>
    /\ ServerFrame

\* httpd.handle_request(): a client has connected and the handler reads
\* its request, for as long as the client takes to send it
Accept(t) ==
    /\ threads[t].at = "waiting"
    /\ threads' = [threads EXCEPT ![t].at = "handling"]
    /\ UNCHANGED <<stop_event, thread, bound, reloader>>
    /\ ServerFrame

\* httpd.handle_request() returns, the request answered
Handled(t) ==
    /\ threads[t].at = "handling"
    /\ threads' = [threads EXCEPT ![t].at = "poll"]
    /\ UNCHANGED <<stop_event, thread, bound, reloader>>
    /\ ServerFrame

\* _simple_reloader: curr != last, on_change(): stop_event.set()
Change ==
    /\ reloader = "watching"
    /\ Len(threads) <= MaxRestarts
    /\ stop_event' = TRUE
    /\ reloader' = "join"
    /\ UNCHANGED <<threads, thread, bound>>
    /\ ServerFrame

\* on_change: thread.join(timeout=2) returns: the thread has ended, or the
\* two seconds are over while it is still handling a request
JoinThread ==
    /\ reloader = "join"
    /\ ~Alive(thread) \/ threads[thread].at = "handling"
    /\ reloader' = "clear"
    /\ UNCHANGED <<stop_event, threads, thread, bound>>
    /\ ServerFrame

\* on_change: stop_event.clear()
Clear ==
    /\ reloader = "clear"
    /\ stop_event' = FALSE
    /\ reloader' = "run_once"
    /\ UNCHANGED <<threads, thread, bound>>
    /\ ServerFrame

\* on_change: thread = run_once()
RunOnce ==
    /\ reloader = "run_once"
    /\ threads' = Append(threads, NewThread)
    /\ thread' = Len(threads) + 1
    /\ reloader' = "watching"
    /\ UNCHANGED <<stop_event, bound>>
    /\ ServerFrame

NextServer ==
    \/ \E t \in 1..Len(threads) : Bind(t)
    \/ \E t \in 1..Len(threads) : Poll(t)
    \/ \E t \in 1..Len(threads) : NoRequest(t)
    \/ \E t \in 1..Len(threads) : Accept(t)
    \/ \E t \in 1..Len(threads) : Handled(t)
    \/ Change
    \/ JoinThread
    \/ Clear
    \/ RunOnce

SpecServer == InitServer /\ [][NextServer]_vars

----------------------------------------------------------------------------
(* Vocabulary of the properties *)

\* the step names of a tree's leaves, left to right
RECURSIVE Leaves(_)
Leaves(node) ==
    IF node.type = "StepNode" THEN <<node.name>>
    ELSE IF node.type = "None" THEN <<>>
    ELSE Leaves(node.left) \o Leaves(node.right)

RECURSIVE SubNodes(_)
SubNodes(node) ==
    IF node.type \in {"StepNode", "None"} THEN {node}
    ELSE {node} \cup SubNodes(node.left) \cup SubNodes(node.right)

\* the functions a tree's steps are compiled to
StepFns(node) == {_snake_case(x) : x \in _collect_steps(node)}

\* some step identifier occurs more than once
HasRepeatedStep(node) == Cardinality(_collect_steps(node)) < Len(Leaves(node))
\* every leaf is its own step and its own step function
DistinctSteps(node) == Cardinality(StepFns(node)) = Len(Leaves(node))

ContainsPar(node) == \E n \in SubNodes(node) : n.type = "ParNode"

Operators == {OpSeq, OpOpt, OpPar}
Prec(op) == IF op = OpPar THEN 1 ELSE IF op = OpSeq THEN 2 ELSE 3
Mk(op, l, r) ==
    IF op = OpPar THEN ParNode(l, r) ELSE IF op = OpSeq THEN SeqNode(l, r) ELSE OptNode(l, r)

\* tokens has the form  a op1 b op2 c  with identifiers a, b, c
ThreeOperands ==
    /\ Len(tokens) = 5
    /\ \A i \in {1, 3, 5} : IsIdentifier(tokens[i])
    /\ \A i \in {2, 4} : tokens[i] \in Operators

Parsed == pc \in {"collect", "validate", "compile", "render", "generated"}
Compiled == pc \in {"render", "generated"} /\ ast_root # NoNode

LastWord(line) == line.words[Len(line.words)]
DefLines(ls) == {i \in 1..Len(ls) : ls[i].words[1].k = "async def"}
\* the lines that invoke step function fn
InvokeLines(ls, fn) ==
    {i \in 1..Len(ls) : LastWord(ls[i]).k = "step(ctx)" /\ LastWord(ls[i]).name = fn}
\* the closure definitions whose body holds line i
Enclosing(ls, i) == {d \in DefLines(ls) : d < i /\ BlockEnd(ls, d) > i}
\* the step functions invoked in the body of the definition at line d
StepsInBlock(ls, d) ==
    {LastWord(ls[i]).name : i \in {j \in (d + 1)..(BlockEnd(ls, d) - 1) :
                                       LastWord(ls[j]).k = "step(ctx)"}}
\* the step functions line i leads to: the one it invokes, or those in the
\* bodies of the closures it calls
Reaches(ls, i) ==
    LET w == LastWord(ls[i])
    IN  IF w.k = "step(ctx)" THEN {w.name}
        ELSE IF w.k \in {"_branch()", "asyncio.gather()"}
        THEN UNION {StepsInBlock(ls, d) :
                      d \in {e \in DefLines(ls) :
                               \E x \in 1..Len(w.ids) : ls[e].words[1].ids[1] = w.ids[x]}}
        ELSE {}

\* step functions started and not yet ended / ended / started
InFlight == {CallOf(Machine, t).name : t \in {u \in 1..Len(tasks) : tasks[u].status = "in_step"}}
Ended == {_snake_case(order[i]) : i \in 1..Len(order)}
Started == InFlight \cup Ended

\* the execution is over: run() returned or raised, and no task can move
Quiescent ==
    /\ rt \in {"finished", "NameError"}
    /\ \A t \in 1..Len(tasks) : tasks[t].status \in {"done", "failed"}

----------------------------------------------------------------------------
(* Properties *)

\* C1: an expression in which a step identifier occurs more than once is
\* rejected by validation with the duplicate-step error naming a repeated
\* step, and is never compiled.
C1_DuplicateStepRejected ==
    (ast_root # NoNode /\ HasRepeatedStep(ast_root)) =>
        /\ pc \in {"collect", "validate", "failed"}
        /\ pc = "failed" =>
              /\ error.msg = MsgDuplicate
              /\ Cardinality({i \in 1..Len(Leaves(ast_root)) :
                                 Leaves(ast_root)[i] = error.tok}) > 1

\* C2: a well-formed expression without a repeated step name is tokenized,
\* parsed and compiled without error, and the fragment holds exactly one
\* invocation line for each of its steps.
C2_EachStepInvokedOnce ==
    /\ operators \in TreeInputs => pc # "failed"
    /\ (Compiled /\ DistinctSteps(ast_root)) =>
          \A fn \in StepFns(ast_root) : Cardinality(InvokeLines(exec_snippets, fn)) = 1

RECURSIVE SumLen(_)
SumLen(toks) == IF toks = <<>> THEN 0 ELSE Len(Head(toks)) + SumLen(Tail(toks))

\* C3: when an expression is accepted, every non-whitespace character of it
\* belongs to a token: no character is dropped.
C3_NoCharacterDropped ==
    Parsed =>
        SumLen(tokens) = Cardinality({i \in 1..Len(Normalize(operators)) :
                                         Normalize(operators)[i] \notin Space})

\* C4: of two different operators in  a op1 b op2 c  the one that binds
\* tighter (optional, then sequence, then parallel) is grouped first:
\* A -> B || C is Parallel(Sequence(A,B), C) and A ->? B -> C is
\* Sequence(Optional(A,B), C).
C4_Precedence ==
    (pc \notin {"start", "tokenize", "parse"} /\ ThreeOperands /\ tokens[2] # tokens[4]) =>
        /\ error = NoError
        /\ ast_root =
             IF Prec(tokens[2]) > Prec(tokens[4])
             THEN Mk(tokens[4], Mk(tokens[2], StepNode(tokens[1]), StepNode(tokens[3])),
                     StepNode(tokens[5]))
             ELSE Mk(tokens[2], StepNode(tokens[1]),
                     Mk(tokens[4], StepNode(tokens[3]), StepNode(tokens[5])))

\* A -> B || C and A ->? B -> C have been parsed
C4_Witness ==
    /\ Parsed
    /\ \/ tokens = <<<<"A">>, OpSeq, <<"B">>, OpPar, <<"C">>>>
          /\ ast_root = ParNode(SeqNode(StepNode(<<"A">>), StepNode(<<"B">>)), StepNode(<<"C">>))
       \/ tokens = <<<<"A">>, OpOpt, <<"B">>, OpSeq, <<"C">>>>
          /\ ast_root = SeqNode(OptNode(StepNode(<<"A">>), StepNode(<<"B">>)), StepNode(<<"C">>))

\* C5: a repeated operator folds left to right:  a op b op c  is
\* op(op(a, b), c) for each of ->, ->? and ||.
C5_LeftAssociative ==
    (pc \notin {"start", "tokenize", "parse"} /\ ThreeOperands /\ tokens[2] = tokens[4]) =>
        /\ error = NoError
        /\ ast_root = Mk(tokens[2], Mk(tokens[2], StepNode(tokens[1]), StepNode(tokens[3])),
                         StepNode(tokens[5]))

\* A -> B -> C has been parsed
C5_Witness ==
    /\ Parsed
    /\ tokens = <<<<"A">>, OpSeq, <<"B">>, OpSeq, <<"C">>>>
    /\ ast_root = SeqNode(SeqNode(StepNode(<<"A">>), StepNode(<<"B">>)), StepNode(<<"C">>))

\* the lines of the body of run() outside every closure definition
MainLines(ls) == {i \in 1..Len(ls) : Enclosing(ls, i) = {} /\ i \notin DefLines(ls)}
\* the closure definitions named _branch_<k>
DefsOf(ls, k) == {d \in DefLines(ls) : ls[d].words[1].ids[1] = k}
NoOpt(node) == \A n \in SubNodes(node) : n.type # "OptNode"

\* C6: for Optional(left, right) the fragment binds the awaited result of
\* left's closure to left_result and nests right's lines one level deeper
\* under "if left_result is not None"; once the run is over, right's steps
\* have run (after left) if left's result was not None and have not run
\* otherwise.
C6_OptionalRunsRightIffNotNone ==
    (Compiled /\ ast_root.type = "OptNode" /\ DistinctSteps(ast_root)
              /\ NoOpt(ast_root.right)) =>
        LET ls == exec_snippets
            right == StepFns(ast_root.right)
        IN  /\ \E i \in MainLines(ls) :
                 /\ ls[i].indent = BaseIndent
                 /\ Len(ls[i].words) = 4
                 /\ ls[i].words[1] = Word("left_result")
                 /\ LastWord(ls[i]).k = "_branch()"
                 /\ DefsOf(ls, LastWord(ls[i]).ids[1]) # {}
                 /\ ls[i + 1] = Line(BaseIndent, <<IfNotNone>>)
                 /\ ls[i + 2].indent = BaseIndent + IndentStep
                 /\ BlockEnd(ls, i + 1) = Len(ls)
                 /\ UNION {Reaches(ls, j) : j \in (i + 2)..(Len(ls) - 1)} = right
            /\ Started \cap right # {} => InFlight \cap StepFns(ast_root.left) = {}
            /\ Quiescent =>
                 IF frames[1].left_result = "value"
                 THEN right \subseteq Ended
                 ELSE right \cap Started = {}

\* C7: for Parallel(left, right) the fragment defines two different
\* closures, one holding left's steps and one holding right's, and awaits
\* both in one asyncio.gather; in every execution no step that follows the
\* Parallel node starts while a step of either branch is unfinished, and
\* when the branches hold no optional node every step of both has ended.
C7_ParallelJoinsBeforeContinuing ==
    (Compiled /\ DistinctSteps(ast_root)) =>
        LET ls == exec_snippets
        IN  /\ \A p \in {n \in SubNodes(ast_root) : n.type = "ParNode"} :
                 \E g \in 1..Len(ls) :
                    /\ HasAwait(ls[g])
                    /\ LastWord(ls[g]).k = "asyncio.gather()"
                    /\ LastWord(ls[g]).ids[1] # LastWord(ls[g]).ids[2]
                    /\ \E d \in DefsOf(ls, LastWord(ls[g]).ids[1]) :
                          StepsInBlock(ls, d) = StepFns(p.left)
                    /\ \E d \in DefsOf(ls, LastWord(ls[g]).ids[2]) :
                          StepsInBlock(ls, d) = StepFns(p.right)
            /\ ast_root.type = "ParNode" =>
                 /\ Cardinality({i \in MainLines(ls) : LastWord(ls[i]).k # StepsCompleted.k}) = 1
                 /\ (rt = "finished" /\ NoOpt(ast_root)) => StepFns(ast_root) \subseteq Ended
                 /\ steps_completed > 0 => InFlight = {}
            /\ \A n \in {x \in SubNodes(ast_root) : x.type \in {"SeqNode", "OptNode"}} :
                 (ContainsPar(n.left) /\ Started \cap StepFns(n.right) # {}) =>
                    /\ InFlight \cap StepFns(n.left) = {}
                    /\ (n.left.type = "ParNode" /\ NoOpt(n.left)) =>
                          StepFns(n.left) \subseteq Ended

\* (A || B) -> C is running: B ended before A, and C has started
C7_Witness ==
    /\ rt = "running"
    /\ ast_root = SeqNode(ParNode(StepNode(<<"A">>), StepNode(<<"B">>)), StepNode(<<"C">>))
    /\ order = <<<<"B">>, <<"A">>>>
    /\ InFlight = {<<"c">>}

\* C8: the fragment of  A -> B || C  holds exactly one invocation line for
\* each of the three steps, the line of A lies above those of B and C, and
\* the closures that hold the lines of B and of C are the two awaited by one
\* asyncio.gather.
C8_SeqThenParallelFragment ==
    (Compiled /\ ThreeOperands /\ tokens[2] = OpSeq /\ tokens[4] = OpPar
              /\ DistinctSteps(ast_root)) =>
        LET ls == exec_snippets
            line(tok) == InvokeLines(ls, _snake_case(tok))
            the(S) == CHOOSE i \in S : TRUE
            a == the(line(tokens[1]))
            b == the(line(tokens[3]))
            c == the(line(tokens[5]))
        IN  /\ \A i \in {1, 3, 5} : Cardinality(line(tokens[i])) = 1
            /\ a < b
            /\ a < c
            /\ \E g \in 1..Len(ls) :
                 /\ LastWord(ls[g]).k = "asyncio.gather()"
                 /\ ls[g].words[1] = Word("await")
                 /\ \E db \in Enclosing(ls, b), dc \in Enclosing(ls, c) :
                       /\ db # dc
                       /\ {ls[db].words[1].ids[1], ls[dc].words[1].ids[1]}
                              = {LastWord(ls[g]).ids[1], LastWord(ls[g]).ids[2]}
                 /\ \A h \in 1..Len(ls) : LastWord(ls[h]).k = "asyncio.gather()" => h = g

\* A -> B || C has been compiled
C8_Witness ==
    /\ pc = "render"
    /\ tokens = <<<<"A">>, OpSeq, <<"B">>, OpPar, <<"C">>>>
    /\ Len(exec_snippets) = 7

\* C9: for Sequence(left, right) at the root every closure definition lies
\* above the lines of the body, left's lines come first and right's lines
\* follow them at the same indentation; in every execution no step of the
\* left side of a Sequence is unfinished or starts once a step of its right
\* side has started, and a left side without optional nodes has ended all
\* its steps by then.
C9_SequenceOrder ==
    (Compiled /\ DistinctSteps(ast_root)) =>
        LET ls == exec_snippets
            main == MainLines(ls) \ {Len(ls)}
            L == {i \in main : Reaches(ls, i) # {} /\ Reaches(ls, i) \subseteq StepFns(ast_root.left)}
            R == {i \in main : Reaches(ls, i) # {} /\ Reaches(ls, i) \subseteq StepFns(ast_root.right)}
            first(S) == CHOOSE i \in S : \A j \in S : i <= j
        IN  /\ ast_root.type = "SeqNode" =>
                 /\ \A i \in (1..Len(ls)) \ MainLines(ls), m \in MainLines(ls) : i < m
                 /\ \A i \in main : Reaches(ls, i) # {} => i \in L \cup R
                 /\ L # {} /\ R # {}
                 /\ \A i \in L, j \in R : i < j
                 /\ ls[first(L)].indent = BaseIndent
                 /\ ls[first(R)].indent = BaseIndent
                 /\ first(L) = first(main)
                 /\ (NoOpt(ast_root.left) /\ Started \cap StepFns(ast_root.right) # {}) =>
                       StepFns(ast_root.left) \subseteq Ended
            /\ \A n \in {x \in SubNodes(ast_root) : x.type = "SeqNode"} :
                 Started \cap StepFns(n.right) # {} => InFlight \cap StepFns(n.left) = {}

\* a Sequence whose left side is a Parallel, as (A || B) -> C, is running:
\* every step of the left side has ended and only right-side steps run
C9_Witness ==
    /\ rt = "running"
    /\ ast_root.type = "SeqNode"
    /\ ast_root.left.type = "ParNode"
    /\ StepFns(ast_root.left) \subseteq Ended
    /\ InFlight # {}
    /\ InFlight \subseteq StepFns(ast_root.right)

\* C10: within one compiled fragment no two closure definitions carry the
\* same name.
C10_ClosureNamesUnique ==
    Compiled =>
        \A i, j \in DefLines(exec_snippets) :
            i # j => exec_snippets[i].words[1].ids # exec_snippets[j].words[1].ids

\* C11: every closure a line of the fragment invokes is defined above that
\* line, in the block of the line or in a block enclosing it, never inside
\* the body of another closure; so the closures of the right side of an
\* Optional stand beside the closure of its left side.
C11_ClosuresVisibleWhereInvoked ==
    Compiled =>
        LET ls == exec_snippets
        IN  \A i \in 1..Len(ls) :
               LastWord(ls[i]).k \in {"_branch()", "asyncio.gather()"} =>
                  \A x \in 1..Len(LastWord(ls[i]).ids) :
                     \E d \in DefsOf(ls, LastWord(ls[i]).ids[x]) :
                        /\ d < i
                        /\ Enclosing(ls, d) \subseteq Enclosing(ls, i)

\* C12: the code generated for an accepted expression is valid Python:
\* every line is a complete statement and every block header is followed
\* by a deeper-indented body, so that loading the generated function never
\* ends in a SyntaxError.
C12_FragmentIsValidPython ==
    /\ Compiled =>
          /\ \A i \in 1..Len(exec_snippets) : ValidStatement(exec_snippets[i].words)
          /\ SyntaxOK(exec_snippets)
    /\ rt # "SyntaxError"

\* the expression with every ASCII operator written as its Unicode alias
WithAliases(expr) ==
    Replace(Replace(Replace(expr, OpOpt, <<"U2192", "?">>), OpSeq, <<"U2192">>),
            OpPar, <<"U21C4">>)

\* C13: the expression written with the Unicode aliases takes the same path
\* through generate() as the expression itself, gives the same token list
\* and, once compiled, the same fragment.
C13_UnicodeAliasesEquivalent ==
    /\ NotBlank(WithAliases(operators)) = NotBlank(operators)
    /\ pc \notin {"start", "tokenize"} => _tokenize(WithAliases(operators)) = tokens
    /\ Compiled =>
          _compile_execution(ParseTokens(_tokenize(WithAliases(operators))).node)
              = exec_snippets

\* A ->? B || C is compiled; its alias form holds both glyphs
C13_Witness ==
    /\ pc = "render"
    /\ tokens = <<<<"A">>, OpOpt, <<"B">>, OpPar, <<"C">>>>
    /\ WithAliases(operators) =
          <<"A", " ", "U2192", "?", " ", "B", " ", "U21C4", " ", "C">>

\* How a token list reads against the grammar
\*    expr := operand (op operand)*     operand := identifier | "(" expr ")"
\* from token i on, inside depth open parentheses, with (have) or without
\* an operand just read: "complete"; "ends_early" when the tokens end where
\* an operand or a ")" is still required; "left_over" when a token follows
\* a complete top-level expression that cannot continue it; "unexpected"
\* for any other misplaced token.
RECURSIVE Scan(_, _, _, _)
Scan(toks, i, depth, have) ==
    IF i > Len(toks)
    THEN IF have /\ depth = 0 THEN "complete" ELSE "ends_early"
    ELSE IF ~have
    THEN IF IsIdentifier(toks[i]) THEN Scan(toks, i + 1, depth, TRUE)
         ELSE IF toks[i] = LParen THEN Scan(toks, i + 1, depth + 1, FALSE)
         ELSE "unexpected"
    ELSE IF toks[i] \in Operators THEN Scan(toks, i + 1, depth, FALSE)
         ELSE IF toks[i] = RParen /\ depth > 0 THEN Scan(toks, i + 1, depth - 1, TRUE)
         ELSE IF depth = 0 THEN "left_over"
         ELSE "unexpected"

\* _parse_expression has returned or raised
ParseDone == pc \notin {"start", "tokenize", "parse"} /\ tokens # <<>>

\* C14: when the tokens end where an operand or a closing parenthesis is
\* still required (a trailing operator, an unclosed parenthesis), parsing
\* fails with "Unexpected end of expression" and no AST is kept.
C14_UnexpectedEnd ==
    (ParseDone /\ Scan(tokens, 1, 0, FALSE) = "ends_early") =>
        /\ pc = "failed"
        /\ error.msg = MsgEnd
        /\ ast_root = NoNode

\* "( A" has failed: the closing parenthesis is missing
C14_Witness ==
    /\ pc = "failed"
    /\ tokens = <<LParen, <<"A">>>>
    /\ error.msg = MsgEnd

\* C15: when tokens are left over after a complete top-level expression,
\* as in A -> B ), parsing always fails with "Unexpected tokens at end of
\* expression" and no AST is kept.
C15_TrailingTokens ==
    (ParseDone /\ Scan(tokens, 1, 0, FALSE) = "left_over") =>
        /\ pc = "failed"
        /\ error.msg = MsgTrailing
        /\ ast_root = NoNode

\* A -> B ) has failed
C15_Witness ==
    /\ pc = "failed"
    /\ tokens = <<<<"A">>, RParen, <<"B">>>>
    /\ error.msg = MsgTrailing

\* the expression holds nothing the token pattern can match: no letter or
\* underscore, no parenthesis, no operator or alias of one
NoToken(expr) ==
    /\ \A i \in 1..Len(expr) :
          expr[i] \notin Upper \cup Lower \cup {"_", "(", ")", "U2192", "U21C4"}
    /\ \A i \in 1..(Len(expr) - 1) :
          /\ ~(expr[i] = "-" /\ expr[i + 1] = ">")
          /\ ~(expr[i] = "|" /\ expr[i + 1] = "|")

\* C16: _parse_expression on an empty expression, a whitespace-only one, or
\* one with no recognizable token raises the empty-expression error, with no
\* token list and no AST.
C16_EmptyExpression ==
    (pc \notin {"start", "tokenize"} /\ NoToken(operators)) =>
        /\ pc = "failed"
        /\ error = ValueError(MsgEmpty, None, None)
        /\ tokens = <<>>
        /\ ast_root = NoNode

C16_Witness ==
    /\ pc = "failed"
    /\ operators = <<" ", " ">>
    /\ error.msg = MsgEmpty

\* C17: when the operator expression is absent, empty or blank, generate()
\* never enters the tokenizer, parser, validator or compiler: no token, no
\* AST, an empty step list, the stub fragment, and no error at any point.
C17_BlankBypassesCore ==
    (\A i \in 1..Len(operators) : operators[i] = " ") =>
        /\ pc \in {"start", "render", "generated", "exists"}
        /\ tokens = <<>>
        /\ pos = 0
        /\ ast_root = NoNode
        /\ steps = <<>>
        /\ exec_snippets = StubSnippet
        /\ error.exc # "ValueError"

C17_Witness ==
    /\ pc = "generated"
    /\ operators = <<" ">>
    /\ steps = <<>>
    /\ exec_snippets = StubSnippet

\* C18: once tokenizing, parsing or validating has raised, no file is
\* created or modified, whatever --force and --no-tests say and whatever
\* files exist, and the command can only end with exit status 1: it either
\* has exited with 1 or is about to.
C18_FailureWritesNoFile ==
    error.exc = "ValueError" =>
        /\ pc = "failed"
        /\ \A f \in FileNames : files[f] # "new"
        /\ exit_code \in {<<>>, <<1>>}
        /\ exit_code = <<>> => ENABLED Catch

C18_Witness ==
    /\ operators = RParen
    /\ error = ValueError(MsgInvalid, None, RParen)
    /\ force /\ with_tests
    /\ files = [f \in FileNames |-> "old"]
    /\ exit_code = <<1>>

\* sub occurs in text
Contains(text, sub) ==
    \E i \in 1..(Len(text) - Len(sub) + 1) : SubSeq(text, i, i + Len(sub) - 1) = sub

\* C19: when the command has exited on a tokenize, parse or validate
\* failure, what it wrote to standard error contains the operator
\* expression as given and the reason, the message of the exception.
C19_ErrorNamesExpressionAndReason ==
    (error.exc = "ValueError" /\ exit_code = <<1>>) =>
        /\ Contains(stderr, operators)
        /\ Contains(stderr, str(error))

Kinds == {"EmptyExpression", "UnexpectedToken", "UnexpectedEnd", "TrailingTokens",
          "DuplicateStep"}

\* the messages a failure kind is reported with
MsgOf(k) ==
    CASE k = "EmptyExpression" -> {MsgEmpty}
      [] k = "UnexpectedToken" -> {MsgExpected, MsgInvalid}
      [] k = "UnexpectedEnd" -> {MsgEnd}
      [] k = "TrailingTokens" -> {MsgTrailing}
      [] k = "DuplicateStep" -> {MsgDuplicate}

\* what is wrong with the argument of the call, told from the argument
\* alone: the step list of a validation call, else the expression
KindOfInput ==
    IF steps # <<>> \/ pc = "validated"
    THEN IF \E i, j \in 1..Len(steps) : i < j /\ steps[i] = steps[j]
         THEN "DuplicateStep" ELSE "none"
    ELSE IF NoToken(operators) THEN "EmptyExpression"
    ELSE LET end == Scan(_tokenize(operators), 1, 0, FALSE)
         IN  CASE end = "unexpected" -> "UnexpectedToken"
               [] end = "ends_early" -> "UnexpectedEnd"
               [] end = "left_over" -> "TrailingTokens"
               [] OTHER -> "none"

\* C20: no message belongs to two failure kinds, every call of the core
\* that fails raises an error whose message is one of its argument's kind,
\* so that the error value tells the kind, and a call that returns had an
\* argument of no failure kind.
C20_KindsDistinguishable ==
    /\ \A k1, k2 \in Kinds : k1 # k2 => MsgOf(k1) \cap MsgOf(k2) = {}
    /\ pc = "failed" =>
          /\ error.exc = "ValueError"
          /\ KindOfInput \in Kinds
          /\ error.msg \in MsgOf(KindOfInput)
          /\ \A k \in Kinds : error.msg \in MsgOf(k) => k = KindOfInput
    /\ pc \in {"collect", "validated"} => KindOfInput = "none"

C20_Witness ==
    /\ pc = "failed"
    /\ operators = <<"(", " ", "A", " ", "B">>
    /\ error = ValueError(MsgExpected, RParen, <<"B">>)

\* C21: the AST a successful parse and validation hand to the compiler is
\* built of the four node kinds only, compiling it raises nothing and ends
\* with a fragment (closed by the progress line), and every ValueError of a
\* generation was raised while tokenizing (no token list), parsing (no AST)
\* or validating (duplicate step), with the stub fragment still in place.
C21_CompileNeverFails ==
    /\ pc = "compile" => KnownNodes(ast_root)
    /\ Compiled =>
          /\ error = NoError
          /\ Len(exec_snippets) >= 2
          /\ exec_snippets[Len(exec_snippets)] = Line(BaseIndent, <<StepsCompleted>>)
    /\ error.exc = "ValueError" =>
          /\ pc = "failed"
          /\ error.msg # MsgUnknown
          /\ exec_snippets = StubSnippet
          /\ \/ tokens = <<>> /\ error.msg = MsgEmpty
             \/ tokens # <<>> /\ ast_root = NoNode
             \/ ast_root # NoNode /\ error.msg = MsgDuplicate

C21_Witness ==
    /\ pc = "render"
    /\ ast_root = OptNode(ParNode(StepNode(<<"A">>), StepNode(<<"B">>)), StepNode(<<"C">>))
    /\ Len(exec_snippets) > 2


----------------------------------------------------------------------------
\* what a request for expr obtains when it runs alone
Alone(expr) ==
    IF ~(Len(expr) > 0 /\ NotBlank(expr))
    THEN [ast |-> NoNode, err |-> NoError, fragment |-> StubSnippet]
    ELSE IF _tokenize(expr) = <<>>
    THEN [ast |-> NoNode, err |-> ValueError(MsgEmpty, None, None), fragment |-> StubSnippet]
    ELSE LET res == ParseTokens(_tokenize(expr))
             dup == _validate_steps_unique(sorted(_collect_steps(res.node)))
         IN  IF res.err # NoError
             THEN [ast |-> NoNode, err |-> res.err, fragment |-> StubSnippet]
             ELSE IF dup # NoError
             THEN [ast |-> res.node, err |-> dup, fragment |-> StubSnippet]
             ELSE [ast |-> res.node, err |-> NoError,
                   fragment |-> _compile_execution(res.node)]

RequestEnded(r) == requests[r].status \in {"done", "raised"}

\* C22: two generation requests whose steps interleave in any order, with
\* no locking, each obtain the AST, the fragment and the error they obtain
\* when run alone; a request that has parsed holds the AST of its own
\* expression.
C22_RequestsIsolated ==
    \A r \in DOMAIN requests :
        /\ RequestEnded(r) =>
              /\ requests[r].ast = Alone(requests[r].expr).ast
              /\ requests[r].err = Alone(requests[r].expr).err
              /\ requests[r].fragment = Alone(requests[r].expr).fragment
        /\ requests[r].status = "parsed" =>
              requests[r].ast = ParseTokens(_tokenize(requests[r].expr)).node

\* the request for `A ->` has run into the end of its tokens while the
\* other request is in the middle of its parse, two tokens consumed
C22_Witness ==
    /\ DOMAIN requests = Requests
    /\ requests[1].expr = Join(<<<<"A">>, OpSeq>>)
    /\ requests[1].status = "raised"
    /\ requests[1].err.msg = MsgEnd
    /\ requests[2].status = "running"
    /\ Len(requests[2].eaten) = 2
    /\ generators[2].pos = 2


----------------------------------------------------------------------------
\* C23: without the force flag, a write to a file that exists fails and
\* leaves the file as it was, and a generation whose pipeline file exists
\* ends in the already-exists error with every file as it was; a file that
\* existed is replaced only under the flag.
C23_ExistingFileKept ==
    /\ [](/\ \A f \in FileNames :
                files[f] # "absent" =>
                    /\ write_file(files, f, FALSE) = [fs |-> files, ok |-> FALSE]
                    /\ write_file(files, f, TRUE).ok
                    /\ write_file(files, f, TRUE).fs[f] = "new"
          /\ pc = "exists" =>
                /\ error = FileExistsError
                /\ ~force
                /\ files["pipeline"] = "old"
                /\ \A f \in FileNames : files[f] # "new"
          /\ exit_code = <<0>> /\ ~dry_run => files["pipeline"] = "new")
    /\ [][\A f \in FileNames :
             /\ files[f] = "old" /\ ~force => files'[f] = "old"
             /\ files[f] = "old" /\ files'[f] = "new" => force /\ pc' = "generated"]_vars

\* the pipeline file and the test file exist, the flag is not given, and
\* the command has ended with the already-exists error
C23_Witness ==
    /\ pc = "exists"
    /\ ~force
    /\ files = [f \in FileNames |-> "old"]
    /\ exit_code = <<1>>
    /\ operators # <<>>


----------------------------------------------------------------------------
\* the names of the Step leaves of a tree
LeafNamesOf(node) == {n.name : n \in {m \in SubNodes(node) : m.type = "StepNode"}}

\* the `steps` entry of the template context has been computed from a parse
StepsHanded ==
    /\ ast_root # NoNode
    /\ pc \in {"validate", "compile", "render", "generated", "exists"}

\* C24: after a successful parse the step list handed to the template holds
\* exactly the names of the tree's Step leaves, which are the identifiers
\* of the expression wherever they stand, each once, in ascending order.
C24_StepsSortedSet ==
    StepsHanded =>
        /\ {steps[i] : i \in 1..Len(steps)} = LeafNamesOf(ast_root)
        /\ LeafNamesOf(ast_root) =
              {tokens[i] : i \in {j \in 1..Len(tokens) : IsIdentifier(tokens[j])}}
        /\ \A i, j \in 1..Len(steps) : i < j => StrLess(steps[i], steps[j])

\* `B -> A` has been generated: the steps are handed over as A, B
C24_Witness ==
    /\ pc = "generated"
    /\ tokens = <<<<"B">>, OpSeq, <<"A">>>>
    /\ steps = <<<<"A">>, <<"B">>>>


----------------------------------------------------------------------------
\* the run of the generated body has tested `left_result is not None` of
\* the outermost Optional: left_result of run()'s own frame is bound, and
\* the task goes on to the test without suspending
GuardEvaluated ==
    /\ rt \in {"running", "finished"}
    /\ frames # <<>>
    /\ frames[1].left_result # "unset"

\* C25: when the left operand of an Optional is compound, every step of
\* left has run to its end by the time the guard on left's result is
\* tested; for `(A -> B) ->? C` both A and B have run.
C25_CompoundLeftRunsWhole ==
    (/\ Compiled
     /\ ast_root.type = "OptNode"
     /\ ast_root.left.type \in {"SeqNode", "ParNode"}
     /\ NoOpt(ast_root.left) /\ NoOpt(ast_root.right)
     /\ DistinctSteps(ast_root)
     /\ GuardEvaluated) =>
        \A x \in LeafNamesOf(ast_root.left) : \E i \in 1..Len(order) : order[i] = x


----------------------------------------------------------------------------
\* C26: during a parse the position stays between 0 and the number of
\* tokens and never decreases; the tokens are consumed one after the other
\* from the first on, none twice; a parse that succeeds ends with the
\* position at the number of tokens.
C26_PositionMonotone ==
    /\ [](\A r \in DOMAIN requests :
            LET q == requests[r]
                gen == generators[InstanceOf(r)]
            IN  /\ gen.pos \in 0..Len(gen.tokens)
                /\ q.eaten = [i \in 1..Len(q.eaten) |-> i - 1]
                /\ q.status = "running" /\ Top(q).at # "tokenize" =>
                      /\ gen.tokens = _tokenize(q.expr)
                      /\ Top(q).at # "reset" => Len(q.eaten) = gen.pos
                /\ q.status \in {"parsed", "done"} /\ q.ast # NoNode =>
                      /\ gen.pos = Len(gen.tokens)
                      /\ Len(q.eaten) = Len(gen.tokens))
    /\ [][\A g \in DOMAIN generators :
             /\ generators'[g].pos >= generators[g].pos
             /\ generators'[g].pos <= generators[g].pos + 1]_vars

\* the request for `( A ) || B` has been parsed: its five tokens were
\* consumed in turn and the position stands at five
C26_Witness ==
    /\ DOMAIN requests = Requests
    /\ requests[2].status = "parsed"
    /\ requests[2].eaten = <<0, 1, 2, 3, 4>>
    /\ generators[2].pos = 5
    /\ requests[1].status = "running"


----------------------------------------------------------------------------
\* toks with the token at index i put in parentheses
WrapAt(toks, i) ==
    SubSeq(toks, 1, i - 1) \o <<LParen, toks[i], RParen>> \o SubSeq(toks, i + 1, Len(toks))

\* C27: parentheses override precedence and are transparent otherwise:
\* `A -> (B || C)` parses to SeqNode(A, ParNode(B, C)) where `A -> B || C`
\* parses to ParNode(SeqNode(A, B), C), and an accepted expression parses
\* to the same tree when the whole of it, or any one identifier of it, is
\* put in parentheses.
C27_ParenthesesTransparent ==
    /\ ParseTokens(<<<<"A">>, OpSeq, LParen, <<"B">>, OpPar, <<"C">>, RParen>>) =
          Ok(SeqNode(StepNode(<<"A">>), ParNode(StepNode(<<"B">>), StepNode(<<"C">>))), 7)
    /\ ParseTokens(<<<<"A">>, OpSeq, <<"B">>, OpPar, <<"C">>>>) =
          Ok(ParNode(SeqNode(StepNode(<<"A">>), StepNode(<<"B">>)), StepNode(<<"C">>)), 5)
    /\ (Parsed /\ ast_root # NoNode) =>
          /\ ParseTokens(<<LParen>> \o tokens \o <<RParen>>) = Ok(ast_root, Len(tokens) + 2)
          /\ \A i \in 1..Len(tokens) :
                IsIdentifier(tokens[i]) =>
                    ParseTokens(WrapAt(tokens, i)) = Ok(ast_root, Len(tokens) + 2)

\* `A -> (B || C)` has been parsed
C27_Witness ==
    /\ Parsed
    /\ tokens = <<<<"A">>, OpSeq, LParen, <<"B">>, OpPar, <<"C">>, RParen>>
    /\ ast_root = SeqNode(StepNode(<<"A">>), ParNode(StepNode(<<"B">>), StepNode(<<"C">>)))


----------------------------------------------------------------------------
\* the parse methods in progress in request r, _parse_expression aside
Depth(r) == Len(requests[r].stack) - 1

\* C28: the parse of a token list terminates.  One level of parentheses is the four parse
\* methods deep, and each further level is entered by consuming a "(", so
\* the methods in progress never outnumber four for each token consumed
\* plus four; the interpreter's recursion limit is never what stops a
\* parse; and every request ends, with a tree or with an error.
C28_ParseTerminates ==
    /\ [](\A r \in DOMAIN requests :
            /\ requests[r].err.exc # "RecursionError"
            /\ (requests[r].status = "running" /\ Top(requests[r]).at \notin {"tokenize", "reset"})
                  => Depth(r) <= 4 * (generators[InstanceOf(r)].pos + 1))
    /\ <>[](\A r \in DOMAIN requests : requests[r].status \in {"parsed", "done", "raised"})

\* the request for `( A ) || B` has ended with its tree while the request
\* for `( (` has ended on the end of its tokens, eight methods deep
C28_Witness ==
    /\ DOMAIN requests = Requests
    /\ requests[2].status = "parsed"
    /\ requests[2].ast = ParNode(StepNode(<<"A">>), StepNode(<<"B">>))
    /\ requests[1].expr = Join(<<LParen, LParen>>)
    /\ requests[1].status = "raised"
    /\ requests[1].err.msg = MsgEnd
    /\ generators[1].pos = 2


----------------------------------------------------------------------------
\* C29: the steps of an accepted expression are compiled to calls of
\* different functions: no two distinct step names have the same
\* step_<snake_case(name)>, so the fragment calls as many functions as the
\* expression has steps.
C29_StepFunctionsDistinct ==
    Compiled =>
        /\ \A x, y \in LeafNamesOf(ast_root) : x # y => _snake_case(x) # _snake_case(y)
        /\ Cardinality({LastWord(exec_snippets[i]).name :
                           i \in {j \in 1..Len(exec_snippets) :
                                     LastWord(exec_snippets[j]).k = "step(ctx)"}})
              = Cardinality(LeafNamesOf(ast_root))


----------------------------------------------------------------------------
\* C30: in reload mode a restart stops the server thread before it starts
\* the next one: every server thread but the one started last has ended,
\* and at no time are two server threads in the serve loop.
C30_OneServerThread ==
    /\ \A t \in 1..Len(threads) : t # thread => ~Alive(t)
    /\ Cardinality({t \in 1..Len(threads) : threads[t].at \in ServeLoop}) <= 1

====
